---- MODULE Spec2Model ----
(***************************************************************************)
(* The lazy-loading Data Service (services/data.js) together with the      *)
(* markdown parser it calls (core/parser.js, core/utils.js).               *)
(*                                                                         *)
(* JavaScript runs on one event loop.  A task (an API call made by the     *)
(* page, the arrival of a fetch response) runs to completion, and the      *)
(* microtasks it makes runnable (the continuations of `await`) all run     *)
(* before the next task starts.  The model keeps every continuation as a   *)
(* step of its own and lets a task start only when no microtask is left.   *)
(***************************************************************************)
EXTENDS Integers, Sequences, FiniteSets, TLC

\* ---------------------------------------------------------------- bounds
\* loadCategoryContent invocations (direct ones and those of preloadCategories)
MaxCalls == 2
\* clearCache invocations
MaxClears == 1
\* preloadCategories invocations
MaxPreloads == 1
\* loadSiteConfig invocations
MaxConfigCalls == 1
\* lines of a content text made of heading lines
MaxLines == 3
\* items of a content text, photos of a gallery, made to be sorted
MaxRecords == 3
\* field lines under the headings of a content text
MaxFieldLines == 3
\* categories of a configuration text
MaxCategories == 3
\* characters of an argument of slugify
MaxSlugLen == 4
\* parser calls made one after the other
MaxRuns == 3

\* Lines of a configuration text of sections
MaxConfigLines == 4
\* categories of the configuration the page starts with
MaxAppCategories == 3
\* tracks of a playlist
MaxTracks == 3
\* calls of the player's methods after init
MaxPlayerCalls == 3

\* ---------------------------------------------------------------- Map
\* A JavaScript Map is a function whose domain is the set of its keys.
EmptyMap == [k \in {} |-> 0]

MapHas(m, k) == k \in DOMAIN m

MapSet(m, k, v) == [x \in (DOMAIN m) \cup {k} |-> IF x = k THEN v ELSE m[x]]

MapDelete(m, k) == [x \in (DOMAIN m) \ {k} |-> m[x]]

\* ---------------------------------------------------------------- text
\* A string the parser looks into is a sequence of one-character strings.
Digits == {"0", "1", "2", "3", "4", "5", "6", "7", "8", "9"}

DigitVal(c) ==
    CASE c = "0" -> 0 [] c = "1" -> 1 [] c = "2" -> 2 [] c = "3" -> 3
      [] c = "4" -> 4 [] c = "5" -> 5 [] c = "6" -> 6 [] c = "7" -> 7
      [] c = "8" -> 8 [] c = "9" -> 9

\* NaN and Infinity of parseInt / parseFloat: two values outside the range of
\* the numbers the texts of the model denote.
NaN == 2000000

Infinity == 1000000

RECURSIVE DigitPrefix(_)
DigitPrefix(s) ==
    IF s = <<>> \/ Head(s) \notin Digits THEN <<>>
    ELSE <<Head(s)>> \o DigitPrefix(Tail(s))

RECURSIVE DigitsValue(_)
DigitsValue(s) ==
    IF s = <<>> THEN 0
    ELSE 10 * DigitsValue(SubSeq(s, 1, Len(s) - 1)) + DigitVal(s[Len(s)])

\* The optional sign both conversions accept, and the text after it.
Signum(s) == IF s # <<>> /\ Head(s) = "-" THEN -1 ELSE 1

Magnitude(s) == IF s # <<>> /\ Head(s) \in {"+", "-"} THEN Tail(s) ELSE s

IsPrefix(p, s) == Len(s) >= Len(p) /\ SubSeq(s, 1, Len(p)) = p

\* parseInt(s, 10) on a trimmed string: an optional sign and the longest
\* prefix of digits after it, NaN when there is no digit there.
parseInt(s) ==
    LET m == Magnitude(s)
    IN  IF DigitPrefix(m) = <<>> THEN NaN ELSE Signum(s) * DigitsValue(DigitPrefix(m))

\* parseFloat(s) on a trimmed string: an optional sign, then the word
\* Infinity or the longest prefix of digits; NaN otherwise.  (The texts of the
\* model have no decimal point and no exponent.)
parseFloat(s) ==
    LET m == Magnitude(s)
    IN  IF IsPrefix(<<"I", "n", "f", "i", "n", "i", "t", "y">>, m)
        THEN Signum(s) * Infinity
        ELSE IF DigitPrefix(m) = <<>> THEN NaN
        ELSE Signum(s) * DigitsValue(DigitPrefix(m))

Lower ==
    <<"a", "b", "c", "d", "e", "f", "g", "h", "i", "j", "k", "l", "m",
      "n", "o", "p", "q", "r", "s", "t", "u", "v", "w", "x", "y", "z">>

Upper ==
    <<"A", "B", "C", "D", "E", "F", "G", "H", "I", "J", "K", "L", "M",
      "N", "O", "P", "Q", "R", "S", "T", "U", "V", "W", "X", "Y", "Z">>

toLowerCase(c) ==
    IF \E i \in 1..26 : Upper[i] = c
    THEN Lower[CHOOSE i \in 1..26 : Upper[i] = c]
    ELSE c

\* Collation rank of a character: punctuation, then digits, then letters
\* in alphabetical order whatever their case, then everything else.
CharRank(c) ==
    IF c = "-" THEN -2
    ELSE IF c = "+" THEN -1
    ELSE IF c \in Digits THEN DigitVal(c)
    ELSE IF \E i \in 1..26 : Lower[i] = toLowerCase(c)
    THEN 9 + (CHOOSE i \in 1..26 : Lower[i] = toLowerCase(c))
    ELSE 36

\* The first difference in rank decides.
RECURSIVE PrimaryCompare(_, _)
PrimaryCompare(s, t) ==
    IF s = <<>> /\ t = <<>> THEN 0
    ELSE IF s = <<>> THEN -1
    ELSE IF t = <<>> THEN 1
    ELSE IF CharRank(Head(s)) < CharRank(Head(t)) THEN -1
    ELSE IF CharRank(Head(s)) > CharRank(Head(t)) THEN 1
    ELSE PrimaryCompare(Tail(s), Tail(t))

\* Between texts of equal rank throughout, the first difference in case
\* decides: lower case first.
RECURSIVE CaseCompare(_, _)
CaseCompare(s, t) ==
    IF s = <<>> THEN 0
    ELSE IF Head(s) = Head(t) THEN CaseCompare(Tail(s), Tail(t))
    ELSE IF Head(s) = toLowerCase(Head(s)) THEN -1
    ELSE 1

\* String.prototype.localeCompare: negative, zero or positive.
localeCompare(s, t) ==
    IF PrimaryCompare(s, t) # 0 THEN PrimaryCompare(s, t) ELSE CaseCompare(s, t)

\* \s, and String.prototype.trim
Whitespace == {" "}

RECURSIVE trimStart(_)
trimStart(s) ==
    IF s # <<>> /\ Head(s) \in Whitespace THEN trimStart(Tail(s)) ELSE s

RECURSIVE trimEnd(_)
trimEnd(s) ==
    IF s # <<>> /\ s[Len(s)] \in Whitespace
    THEN trimEnd(SubSeq(s, 1, Len(s) - 1)) ELSE s

trim(s) == trimEnd(trimStart(s))

\* ---------------------------------------------------------------- lines
\* A line of markdown is a sequence of symbols: characters, and for each
\* field label one symbol that stands for the label's characters:
\*   "zhanshixuhao" 展示序号   "xuhao" 序号        "shuliang" 数量
\*   "miaoshu" 描述            "jishuzhan" 技术栈  "zhuangtai" 状态
\*   "youxileixing" 游戏类型   "biaoqian" 标签     "kaifashang" 开发商
\*   "changshang" 厂商         "fashoupingtai" 发售平台  "pingtai" 平台
\*   "fashouriqi" 发售日期     "riqi" 日期         "pingjia" 评价
\*   "zuozhe" 作者             "chubannianfen" 出版年份
\*   "chubanshijian" 出版时间  "shujileixing" 书籍类型
\*   "paishedidian" 拍摄地点   "paisheriqi" 拍摄日期
\*   "fengmian" 封面           "zhaopianlianjie" 照片链接  "lianjie" 链接
\* and "Cover", "ISBN", "SteamID", "SteamAppID".  ":" is either colon,
\* "http://" the scheme of a URL, "fangwen" the word 访问.
Labels ==
    {"zhanshixuhao", "xuhao", "shuliang", "miaoshu", "jishuzhan", "zhuangtai",
     "youxileixing", "biaoqian", "kaifashang", "changshang", "fashoupingtai",
     "pingtai", "fashouriqi", "riqi", "pingjia", "zuozhe", "chubannianfen",
     "chubanshijian", "shujileixing", "paishedidian", "paisheriqi",
     "fengmian", "Cover", "ISBN", "SteamID", "SteamAppID", "zhaopianlianjie",
     "lianjie"}

\* The line as the parser's regular expressions see it: label "##" or "###"
\* for a heading (value: the heading text), a field label for a
\* `Label: value` line (value: the trimmed remainder), and "" for any other
\* line.
Line(label, value) == [label |-> label, value |-> value]

\* Mutant: /^#{n}(\s+|$)/ in the place of /^#{n}\s+/
IsHeading_NoTextNeeded(t, n) ==
    /\ Len(t) >= n
    /\ \A i \in 1..n : t[i] = "#"
    /\ (Len(t) = n \/ t[n + 1] \in Whitespace)

\* /^##\s+/.test(trimmed) for n = 2, /^###\s+/.test(trimmed) for n = 3
IsHeading(t, n) ==
    /\ Len(t) > n
    /\ \A i \in 1..n : t[i] = "#"
    /\ t[n + 1] \in Whitespace

\* trimmed.replace(/^##\s+/, '').trim()
HeadingTitle(t, n) == trim(trimStart(SubSeq(t, n + 1, Len(t))))

\* new RegExp(`^${fieldName}\\s*[:：]`).test(line), for the label the line
\* starts with
IsField(t) ==
    /\ t # <<>>
    /\ Head(t) \in Labels
    /\ trimStart(Tail(t)) # <<>>
    /\ Head(trimStart(Tail(t))) = ":"

\* line.replace(regex, '').trim()
FieldValue(t) == trim(Tail(trimStart(Tail(t))))

\* line.trim() and the tests made on the result.
Lex(line) ==
    LET trimmed == trim(line)
    IN  IF IsHeading(trimmed, 2) THEN Line("##", HeadingTitle(trimmed, 2))
        ELSE IF IsHeading(trimmed, 3) THEN Line("###", HeadingTitle(trimmed, 3))
        ELSE IF IsField(trimmed) THEN Line(Head(trimmed), FieldValue(trimmed))
        ELSE Line("", <<>>)

\* parseField: the trimmed remainder when the line starts with fieldName and
\* a colon, null otherwise.  null and "" are both falsy, and the callers only
\* test truthiness, so both are the empty string here.
parseField(line, fieldName) ==
    IF line.label = fieldName THEN line.value ELSE <<>>

\* a || b on strings
Or(a, b) == IF a # <<>> THEN a ELSE b

\* The places of "](" in s from which /\]\((.*?)\)$/ can match, at least
\* `least` characters standing between the parentheses.
Closings(s, from, least) ==
    { i \in from..(Len(s) - 2 - least) :
        s[i] = "]" /\ s[i + 1] = "(" /\ s[Len(s)] = ")" }

Min(S) == CHOOSE x \in S : \A y \in S : x <= y

\* coverRaw.match(/^!\[(.*?)\]\((.+?)\)$/): m[2].trim(), empty when there is
\* no match.
ImageUrl(s) ==
    IF Len(s) >= 2 /\ s[1] = "!" /\ s[2] = "[" /\ Closings(s, 3, 1) # {}
    THEN trim(SubSeq(s, Min(Closings(s, 3, 1)) + 2, Len(s) - 1))
    ELSE <<>>

\* photoRaw.match(/\((.*?)\)$/): m ? m[1] : photoRaw
PhotoUrl(s) ==
    IF s # <<>> /\ s[Len(s)] = ")" /\ \E i \in 1..Len(s) - 1 : s[i] = "("
    THEN SubSeq(s, Min({i \in 1..Len(s) - 1 : s[i] = "("}) + 1, Len(s) - 1)
    ELSE s

\* if (url.startsWith('../')) url = url.substring(3)
StripParent(path) ==
    IF Len(path) >= 3 /\ SubSeq(path, 1, 3) = <<".", ".", "/">>
    THEN SubSeq(path, 4, Len(path)) ELSE path

\* The places where /https?:\/\/\S+/ matches in s.
UrlStarts(s) ==
    { i \in 1..Len(s) - 1 : s[i] = "http://" /\ s[i + 1] \notin Whitespace }

RECURSIVE NonBlankRun(_)
NonBlankRun(s) ==
    IF s = <<>> \/ Head(s) \in Whitespace THEN <<>>
    ELSE <<Head(s)>> \o NonBlankRun(Tail(s))

\* parseLink of utils.js lines 26-37, on the text after `链接:` (trimmed).
parseLink(rest) ==
    IF rest # <<>> /\ rest[1] = "[" /\ Closings(rest, 2, 0) # {}
    THEN LET i == Min(Closings(rest, 2, 0))
         IN  [text |-> trim(SubSeq(rest, 2, i - 1)),
              url |-> trim(SubSeq(rest, i + 2, Len(rest) - 1))]
    ELSE IF UrlStarts(rest) # {}
    THEN [text |-> <<"fangwen">>,
          url |-> NonBlankRun(SubSeq(rest, Min(UrlStarts(rest)), Len(rest)))]
    ELSE [text |-> Or(rest, <<"fangwen">>), url |-> <<"#">>]

\* ---------------------------------------------------------------- parseContent
\* The fields a field line sets with `if (x) { target.f = x; continue; }`,
\* by label (lines 165-204).
SimpleField ==
    [l \in {"miaoshu", "jishuzhan", "zhuangtai", "youxileixing", "biaoqian",
            "kaifashang", "changshang", "fashoupingtai", "pingtai",
            "fashouriqi", "riqi", "pingjia", "zuozhe", "chubannianfen",
            "chubanshijian", "shujileixing", "paishedidian", "paisheriqi"} |->
        CASE l = "miaoshu" -> "desc"
          [] l = "jishuzhan" -> "tech"
          [] l = "zhuangtai" -> "status"
          [] l \in {"youxileixing", "biaoqian", "shujileixing"} -> "tags"
          [] l \in {"kaifashang", "changshang"} -> "dev"
          [] l \in {"fashoupingtai", "pingtai"} -> "platform"
          [] l \in {"fashouriqi", "riqi"} -> "releaseDate"
          [] l = "pingjia" -> "review"
          [] l = "zuozhe" -> "author"
          [] l \in {"chubannianfen", "chubanshijian"} -> "publishYear"
          [] l = "paishedidian" -> "photoLocation"
          [] l = "paisheriqi" -> "photoDate"]

\* { title: photoTitle } of line 132; a field not set yet is the empty
\* string.  seen (the field lines dispatched to the record) and coverWrites
\* (the assignments made to its cover) are history, not fields of the source.
NewSubItem(title) ==
    [title |-> title, order |-> <<>>, desc |-> <<>>, tech |-> <<>>,
     status |-> <<>>, tags |-> <<>>, dev |-> <<>>, platform |-> <<>>,
     releaseDate |-> <<>>, review |-> <<>>, author |-> <<>>,
     publishYear |-> <<>>, photoLocation |-> <<>>, photoDate |-> <<>>,
     cover |-> <<>>, photoUrl |-> <<>>, linkText |-> <<>>, linkUrl |-> <<>>,
     seen |-> <<>>, coverWrites |-> 0]

\* { title, photos: [] } of line 119
NewItem(title) ==
    [title |-> title, photos |-> <<>>, isSet |-> FALSE, currentSubItem |-> 0,
     order |-> <<>>, desc |-> <<>>, tech |-> <<>>,
     status |-> <<>>, tags |-> <<>>, dev |-> <<>>, platform |-> <<>>,
     releaseDate |-> <<>>, review |-> <<>>, author |-> <<>>,
     publishYear |-> <<>>, photoLocation |-> <<>>, photoDate |-> <<>>,
     cover |-> <<>>, photoUrl |-> <<>>, linkText |-> <<>>, linkUrl |-> <<>>,
     seen |-> <<>>, coverWrites |-> 0]

\* pushItem of lines 106-111 on the loop state [items, currentItem, open]
pushItem(st) ==
    [st EXCEPT !.items = IF st.open /\ st.currentItem.title # <<>>
                          THEN Append(@, st.currentItem) ELSE @,
               !.open = FALSE]

\* Lines 141-144: is the target the current sub-item?
TargetIsSubItem(item) == item.isSet /\ item.currentSubItem # 0

\* The target of lines 141-144.
Target(item) ==
    IF TargetIsSubItem(item) THEN item.photos[item.currentSubItem] ELSE item

\* Mutant: the field is written to the item whatever the target.
SetTarget_AlwaysItem(item, fld, value) == [item EXCEPT ![fld] = value]

\* target.<field> = value
SetTarget(item, fld, value) ==
    IF TargetIsSubItem(item)
    THEN [item EXCEPT !.photos[item.currentSubItem][fld] = value]
    ELSE [item EXCEPT ![fld] = value]

\* target.cover = url
WriteCover(item, url) ==
    SetTarget(SetTarget(item, "coverWrites", Target(item).coverWrites + 1),
              "cover", url)

\* `https://covers.openlibrary.org/b/isbn/${isbn}-L.jpg`
OpenLibraryCover(isbn) == <<"openlibrary">> \o isbn

\* `https://cdn.akamai.steamstatic.com/steam/apps/${steamId}/header.jpg`
SteamCover(steamId) == <<"steamstatic">> \o steamId

\* Mutant: an ISBN line writes the cover whether or not the record has one.
CoverLine_IsbnOverwrites(item, line) ==
    LET coverRaw == Or(parseField(line, "fengmian"), parseField(line, "Cover"))
        isbn == parseField(line, "ISBN")
    IN  IF coverRaw # <<>> /\ ImageUrl(coverRaw) # <<>>
        THEN WriteCover(item, ImageUrl(coverRaw))
        ELSE IF isbn # <<>> THEN WriteCover(item, OpenLibraryCover(isbn))
        ELSE item

\* Mutant: a SteamID/SteamAppID line writes the cover whether or not the
\* record has one.
CoverLine_SteamOverwrites(item, line) ==
    LET coverRaw == Or(parseField(line, "fengmian"), parseField(line, "Cover"))
        isbn == parseField(line, "ISBN")
        steamId == Or(parseField(line, "SteamID"), parseField(line, "SteamAppID"))
    IN  IF coverRaw # <<>> /\ ImageUrl(coverRaw) # <<>>
        THEN WriteCover(item, ImageUrl(coverRaw))
        ELSE IF isbn # <<>> /\ Target(item).cover = <<>>
        THEN WriteCover(item, OpenLibraryCover(isbn))
        ELSE IF steamId # <<>> THEN WriteCover(item, SteamCover(steamId))
        ELSE item

\* Lines 208-232: the cover from a 封面/Cover line in image syntax, or else,
\* when the target has no cover, from an ISBN or a SteamID/SteamAppID line.
CoverLine(item, line) ==
    LET coverRaw == Or(parseField(line, "fengmian"), parseField(line, "Cover"))
        isbn == parseField(line, "ISBN")
        steamId == Or(parseField(line, "SteamID"), parseField(line, "SteamAppID"))
    IN  IF coverRaw # <<>> /\ ImageUrl(coverRaw) # <<>>
        THEN WriteCover(item, ImageUrl(coverRaw))
        ELSE IF isbn # <<>> /\ Target(item).cover = <<>>
        THEN WriteCover(item, OpenLibraryCover(isbn))
        ELSE IF steamId # <<>> /\ Target(item).cover = <<>>
        THEN WriteCover(item, SteamCover(steamId))
        ELSE item

\* Mutant: a 数量 of 1 marks the item as a gallery too (>= for >).
FieldLine_CountAtLeastOne(item, line) ==
    LET order == Or(parseField(line, "zhanshixuhao"), parseField(line, "xuhao"))
        quantity == parseField(line, "shuliang")
        count == parseInt(quantity)
        photoRaw == parseField(line, "zhaopianlianjie")
    IN  IF order # <<>> THEN SetTarget(item, "order", order)
        ELSE IF quantity # <<>> /\ count # NaN /\ count >= 1
        THEN [item EXCEPT !.isSet = TRUE]
        ELSE IF line.label \in DOMAIN SimpleField /\ line.value # <<>>
        THEN SetTarget(item, SimpleField[line.label], line.value)
        ELSE IF line.label \in {"fengmian", "Cover", "ISBN", "SteamID", "SteamAppID"}
        THEN CoverLine(item, line)
        ELSE IF photoRaw # <<>>
        THEN SetTarget(item, "photoUrl", StripParent(PhotoUrl(photoRaw)))
        ELSE IF line.label = "lianjie"
        THEN SetTarget(SetTarget(item, "linkText", parseLink(line.value).text),
                       "linkUrl", parseLink(line.value).url)
        ELSE item

\* Lines 146-249: the field rules, the first that applies deciding.
FieldLine(item, line) ==
    LET order == Or(parseField(line, "zhanshixuhao"), parseField(line, "xuhao"))
        quantity == parseField(line, "shuliang")
        count == parseInt(quantity)
        photoRaw == parseField(line, "zhaopianlianjie")
    IN  IF order # <<>> THEN SetTarget(item, "order", order)
        ELSE IF quantity # <<>> /\ count # NaN /\ count > 1
        THEN [item EXCEPT !.isSet = TRUE]
        ELSE IF line.label \in DOMAIN SimpleField /\ line.value # <<>>
        THEN SetTarget(item, SimpleField[line.label], line.value)
        ELSE IF line.label \in {"fengmian", "Cover", "ISBN", "SteamID", "SteamAppID"}
        THEN CoverLine(item, line)
        ELSE IF photoRaw # <<>>
        THEN SetTarget(item, "photoUrl", StripParent(PhotoUrl(photoRaw)))
        ELSE IF line.label = "lianjie"
        THEN SetTarget(SetTarget(item, "linkText", parseLink(line.value).text),
                       "linkUrl", parseLink(line.value).url)
        ELSE item

\* Mutant: the sub-item is put at the front of photos (unshift for push).
ContentLine_SubItemInFront(st, line) ==
    IF line.label = "##"
    THEN [pushItem(st) EXCEPT !.currentItem = NewItem(line.value), !.open = TRUE]
    ELSE IF line.label = "###"
    THEN IF st.open
         THEN [st EXCEPT !.currentItem =
                  [@ EXCEPT !.isSet = TRUE,
                            !.photos = <<NewSubItem(line.value)>> \o @,
                            !.currentSubItem = 1]]
         ELSE st
    ELSE IF ~st.open THEN st
    ELSE [st EXCEPT !.currentItem =
             SetTarget(FieldLine(@, line), "seen", Append(Target(@).seen, line))]

\* One iteration of the loop of lines 113-250.
ContentLine(st, line) ==
    IF line.label = "##"
    THEN [pushItem(st) EXCEPT !.currentItem = NewItem(line.value), !.open = TRUE]
    ELSE IF line.label = "###"
    THEN IF st.open
         THEN [st EXCEPT !.currentItem =
                  [@ EXCEPT !.isSet = TRUE,
                            !.photos = Append(@, NewSubItem(line.value)),
                            !.currentSubItem = Len(st.currentItem.photos) + 1]]
         ELSE st
    ELSE IF ~st.open THEN st
    ELSE [st EXCEPT !.currentItem =
             SetTarget(FieldLine(@, line), "seen", Append(Target(@).seen, line))]

RECURSIVE ContentLoop(_, _)
ContentLoop(st, lines) ==
    IF lines = <<>> THEN st
    ELSE ContentLoop(ContentLine(st, Head(lines)), Tail(lines))

\* sortFn of lines 254-264
sortFn(a, b) ==
    LET oA == Or(a.order, <<"9", "9", "9">>)
        oB == Or(b.order, <<"9", "9", "9">>)
        nA == parseFloat(oA)
        nB == parseFloat(oB)
    IN  IF nA # NaN /\ nB # NaN /\ nA # nB THEN nA - nB
        ELSE localeCompare(oA, oB)

\* Mutant: a record that compares equal to the last one is dropped.
SortInsert_DropsTies(s, x) ==
    IF s # <<>> /\ sortFn(s[Len(s)], x) = 0 THEN s ELSE Append(s, x)

\* Array.prototype.sort(sortFn): stable; insertion from the right.
RECURSIVE SortInsert(_, _)
SortInsert(s, x) ==
    IF s = <<>> THEN <<x>>
    ELSE IF sortFn(s[Len(s)], x) > 0
         THEN Append(SortInsert(SubSeq(s, 1, Len(s) - 1), x), s[Len(s)])
         ELSE Append(s, x)

RECURSIVE Sort(_)
Sort(s) ==
    IF s = <<>> THEN <<>>
    ELSE SortInsert(Sort(SubSeq(s, 1, Len(s) - 1)), s[Len(s)])

\* The item as returned: its photos sorted (lines 269-273); currentSubItem,
\* a reference to the last sub-item, is carried as that sub-item's title.
FinishItem(item) ==
    [item EXCEPT !.photos = IF item.isSet THEN Sort(@) ELSE @,
                 !.currentSubItem =
                     IF @ = 0 THEN <<>> ELSE item.photos[item.currentSubItem].title]

RECURSIVE FinishAll(_)
FinishAll(items) ==
    IF items = <<>> THEN <<>>
    ELSE <<FinishItem(Head(items))>> \o FinishAll(Tail(items))

\* const items = []; let currentItem = null;   (lines 103-104)
ContentStart == [items |-> <<>>, currentItem |-> NewItem(<<>>), open |-> FALSE]

\* Lines 251-275: the last item is pushed, the items and the photos of each
\* gallery are sorted, the items are returned.
ContentResult(st) == FinishAll(Sort(pushItem(st).items))

parseContent(md) == ContentResult(ContentLoop(ContentStart, md))

\* ---------------------------------------------------------------- slugify
\* \p{L} and \p{N}
IsLetterOrDigit(c) ==
    c \in Digits \/ \E i \in 1..26 : c = Lower[i] \/ c = Upper[i]

RECURSIVE LowerAll(_)
LowerAll(s) ==
    IF s = <<>> THEN <<>> ELSE <<toLowerCase(Head(s))>> \o LowerAll(Tail(s))

\* .replace(/[^\p{L}\p{N}\s\-_.]/gu, '')
RECURSIVE StripOthers(_)
StripOthers(s) ==
    IF s = <<>> THEN <<>>
    ELSE IF IsLetterOrDigit(Head(s)) \/ Head(s) \in Whitespace \cup {"-", "_", "."}
         THEN <<Head(s)>> \o StripOthers(Tail(s))
         ELSE StripOthers(Tail(s))

\* .replace(/\s+/g, '-')
RECURSIVE SpacesToHyphen(_)
SpacesToHyphen(s) ==
    IF s = <<>> THEN <<>>
    ELSE IF Head(s) \in Whitespace
         THEN <<"-">> \o SpacesToHyphen(trimStart(s))
         ELSE <<Head(s)>> \o SpacesToHyphen(Tail(s))

\* Mutant: the last replace is left out.
CollapseHyphens_LeftOut(s) == s

\* .replace(/-+/g, '-')
RECURSIVE CollapseHyphens(_)
CollapseHyphens(s) ==
    IF s = <<>> THEN <<>>
    ELSE IF Head(s) = "-" /\ Len(s) > 1 /\ s[2] = "-"
         THEN CollapseHyphens(Tail(s))
         ELSE <<Head(s)>> \o CollapseHyphens(Tail(s))

\* Mutant: the characters outside the class are stripped last, after the
\* hyphens are collapsed.
slugify_StripsLast(s) == StripOthers(CollapseHyphens(SpacesToHyphen(LowerAll(trim(s)))))

slugify(s) == CollapseHyphens(SpacesToHyphen(StripOthers(LowerAll(trim(s)))))

\* ---------------------------------------------------------------- parseConfig
\* Config lines: label "##blog", "##author", "##categories" for the three
\* section headings (博客信息, 作者信息, 展示类别), "###" for a category
\* heading, and the field labels
\*   "bokemingcheng" 博客名称   "xingming" 姓名   "yangshileixing" 样式类型
\*   "zhanshixuhao" 展示序号    "lianjie" a line starting with 链接：, its
\*   value the text inside the trailing (...), empty when there is none.

\* { title, id: slugify(title), type: 'default' }; order is absent (hasOrder
\* FALSE) until a 展示序号 line sets it, and path is empty until a link does.
NewCategory(title) ==
    [title |-> title, id |-> slugify(title), type |-> <<"d", "e", "f", "a", "u", "l", "t">>,
     hasOrder |-> FALSE, order |-> 0, color |-> <<>>, path |-> <<>>]

\* avatar.match(/^!\[.*?\]\((.*?)\)$/): m ? m[1] : avatar, without a leading ../
AvatarUrl(s) ==
    StripParent(IF Len(s) >= 2 /\ s[1] = "!" /\ s[2] = "[" /\ Closings(s, 3, 0) # {}
                THEN SubSeq(s, Min(Closings(s, 3, 0)) + 2, Len(s) - 1)
                ELSE s)

\* The places where /<(.+?)>/ matches in s.
EmailStarts(s) ==
    { i \in 1..Len(s) : s[i] = "<" /\ \E j \in (i + 2)..Len(s) : s[j] = ">" }

\* email.match(/<(.+?)>/): m ? m[1] : email
EmailAddress(s) ==
    IF EmailStarts(s) = {} THEN s
    ELSE LET i == Min(EmailStarts(s))
             j == Min({ k \in (i + 2)..Len(s) : s[k] = ">" })
         IN  SubSeq(s, i + 1, j - 1)

\* github.match(/^\[(.*?)\]\((.*?)\)$/): m ? m[2] : github
GithubUrl(s) ==
    IF s # <<>> /\ s[1] = "[" /\ Closings(s, 2, 0) # {}
    THEN SubSeq(s, Min(Closings(s, 2, 0)) + 2, Len(s) - 1)
    ELSE s

\* The separators of /[、,，]/: the ideographic comma, the comma and the
\* full-width comma.
TagSeparators == {"dunhao", ",", "quanjiaodouhao"}

\* tags.split(/[、,，]/).map(t => t.trim())
RECURSIVE SplitTags(_, _)
SplitTags(s, tag) ==
    IF s = <<>> THEN <<trim(tag)>>
    ELSE IF Head(s) \in TagSeparators THEN <<trim(tag)>> \o SplitTags(Tail(s), <<>>)
    ELSE SplitTags(Tail(s), Append(tag, Head(s)))

\* Mutant: a category field line is written to the first category of the
\* list, not to the one started last.
ConfigLine_FirstCategory(st, line) ==
    LET cfg == st.config
        cur == st.currentCategory
    IN
    IF line.label = "" THEN st
    ELSE IF line.label = "##blog" THEN [st EXCEPT !.currentSection = "blog"]
    ELSE IF line.label = "##author" THEN [st EXCEPT !.currentSection = "author"]
    ELSE IF line.label = "##categories" THEN [st EXCEPT !.currentSection = "categories"]
    ELSE IF st.currentSection = "blog"
    THEN LET title == parseField(line, "bokemingcheng")
         IN  IF title # <<>> THEN [st EXCEPT !.config.blogInfo.title = title] ELSE st
    ELSE IF st.currentSection = "author"
    THEN LET name == parseField(line, "xingming")
         IN  IF name # <<>> THEN [st EXCEPT !.config.authorInfo.name = name] ELSE st
    ELSE IF st.currentSection = "categories"
    THEN IF line.label = "###"
         THEN [st EXCEPT !.config.categories = Append(@, NewCategory(trim(line.value))),
                         !.currentCategory = Len(cfg.categories) + 1]
         ELSE IF cur # 0
         THEN LET order == parseField(line, "zhanshixuhao")
                  c0 == cfg.categories[1]
                  c2 == IF order # <<>>
                        THEN [c0 EXCEPT !.hasOrder = TRUE, !.order = parseInt(order)]
                        ELSE c0
              IN  [st EXCEPT !.config.categories[1] = c2]
         ELSE st
    ELSE st

\* One iteration of the loop of lines 18-93 on the loop state
\* [config, currentSection, currentCategory] (currentCategory: an index into
\* config.categories, 0 for null).
ConfigLine(st, line) ==
    LET cfg == st.config
        cur == st.currentCategory
    IN
    IF line.label = "" THEN st
    ELSE IF line.label = "##blog" THEN [st EXCEPT !.currentSection = "blog"]
    ELSE IF line.label = "##author" THEN [st EXCEPT !.currentSection = "author"]
    ELSE IF line.label = "##categories" THEN [st EXCEPT !.currentSection = "categories"]
    ELSE IF st.currentSection = "blog"
    THEN LET title == parseField(line, "bokemingcheng")
             desc == parseField(line, "wangzhanmiaoshu")
             slogan == parseField(line, "biaoyu")
             copyright == parseField(line, "banquan")
             b0 == cfg.blogInfo
             b1 == IF title # <<>> THEN [b0 EXCEPT !.title = title] ELSE b0
             b2 == IF desc # <<>> THEN [b1 EXCEPT !.desc = desc] ELSE b1
             b3 == IF slogan # <<>> THEN [b2 EXCEPT !.slogan = slogan] ELSE b2
             b4 == IF copyright # <<>> THEN [b3 EXCEPT !.copyright = copyright] ELSE b3
         IN  [st EXCEPT !.config.blogInfo = b4]
    ELSE IF st.currentSection = "author"
    THEN LET name == parseField(line, "xingming")
             avatar == parseField(line, "touxiang")
             email == parseField(line, "Email")
             github == parseField(line, "Github")
             tags == parseField(line, "biaoqian")
             a0 == cfg.authorInfo
             a1 == IF name # <<>> THEN [a0 EXCEPT !.name = name] ELSE a0
             a2 == IF avatar # <<>> THEN [a1 EXCEPT !.avatar = AvatarUrl(avatar)] ELSE a1
             a3 == IF email # <<>> THEN [a2 EXCEPT !.email = EmailAddress(email)] ELSE a2
             a4 == IF github # <<>> THEN [a3 EXCEPT !.github = GithubUrl(github)] ELSE a3
             a5 == IF tags # <<>> THEN [a4 EXCEPT !.tags = SplitTags(tags, <<>>)] ELSE a4
         IN  [st EXCEPT !.config.authorInfo = a5]
    ELSE IF st.currentSection = "categories"
    THEN IF line.label = "###"
         THEN [st EXCEPT !.config.categories = Append(@, NewCategory(trim(line.value))),
                         !.currentCategory = Len(cfg.categories) + 1]
         ELSE IF cur # 0
         THEN LET type == parseField(line, "yangshileixing")
                  order == parseField(line, "zhanshixuhao")
                  color == parseField(line, "qiangdiaose")
                  link == parseField(line, "lianjie")
                  c0 == cfg.categories[cur]
                  c1 == IF type # <<>> THEN [c0 EXCEPT !.type = type] ELSE c0
                  c2 == IF order # <<>>
                        THEN [c1 EXCEPT !.hasOrder = TRUE, !.order = parseInt(order)]
                        ELSE c1
                  c3 == IF color # <<>> THEN [c2 EXCEPT !.color = color] ELSE c2
                  c4 == IF link # <<>> THEN [c3 EXCEPT !.path = StripParent(link)] ELSE c3
              IN  [st EXCEPT !.config.categories[cur] = c4]
         ELSE st
    ELSE st

RECURSIVE ConfigLoop(_, _)
ConfigLoop(st, lines) ==
    IF lines = <<>> THEN st
    ELSE ConfigLoop(ConfigLine(st, Head(lines)), Tail(lines))

\* (a.order || 99): undefined, NaN and 0 are falsy
DefaultOrder == 99

OrderKey(c) ==
    IF ~c.hasOrder \/ c.order = NaN \/ c.order = 0 THEN DefaultOrder ELSE c.order

\* config.categories.sort((a, b) => (a.order || 99) - (b.order || 99)): stable
RECURSIVE CategoryInsert(_, _)
CategoryInsert(s, x) ==
    IF s = <<>> THEN <<x>>
    ELSE IF OrderKey(s[Len(s)]) - OrderKey(x) > 0
         THEN Append(CategoryInsert(SubSeq(s, 1, Len(s) - 1), x), s[Len(s)])
         ELSE Append(s, x)

RECURSIVE SortCategories(_)
SortCategories(s) ==
    IF s = <<>> THEN <<>>
    ELSE CategoryInsert(SortCategories(SubSeq(s, 1, Len(s) - 1)), s[Len(s)])

\* The locals of parseConfig, lines 9-16
ConfigStart ==
    [config |-> [blogInfo |-> [title |-> <<>>, desc |-> <<>>, slogan |-> <<>>,
                              copyright |-> <<>>],
                 authorInfo |-> [name |-> <<>>, avatar |-> <<>>, email |-> <<>>,
                                 github |-> <<>>, tags |-> <<>>],
                 categories |-> <<>>],
     currentSection |-> "null", currentCategory |-> 0]

\* Lines 94-95
ConfigResult(st) == [st.config EXCEPT !.categories = SortCategories(@)]

parseConfig(md) == ConfigResult(ConfigLoop(ConfigStart, md))

\* ---------------------------------------------------------------- the server
Ids == {"games", "photos"}

\* { id, path } objects handed to the service; "" is a category without path.
\* Two of them share an id.
Categories ==
    { [id |-> "games", path |-> "games.md"],
      [id |-> "games", path |-> "photos.md"],
      [id |-> "photos", path |-> "photos.md"],
      [id |-> "photos", path |-> ""] }

\* The markdown a path serves when its fetch and the read of its body succeed.
FileAt(path) ==
    IF path = "games.md"
    THEN << Line("##", <<"b">>), Line("xuhao", <<"2">>), Line("miaoshu", <<"c">>),
            Line("##", <<"a">>), Line("xuhao", <<"1">>) >>
    ELSE << Line("##", <<"c">>), Line("shuliang", <<"2">>),
            Line("###", <<"a">>), Line("xuhao", <<"1", "0">>),
            Line("###", <<"b">>), Line("xuhao", <<"9">>) >>

\* The markdown CONFIG_URL serves.
ConfigFile ==
    << Line("##blog", <<>>), Line("bokemingcheng", <<"A", "b">>),
       Line("##categories", <<>>),
       Line("###", <<"A", " ", "b", "!">>), Line("zhanshixuhao", <<"2">>),
       Line("lianjie", <<".", ".", "/", "a">>),
       Line("###", <<"C">>), Line("zhanshixuhao", <<"1">>) >>

Paths == {"games.md", "photos.md"}

\* Parser.parseContent(markdown) for the body of each path, and
\* Parser.parseConfig(markdown) for the configuration: the parser is a pure
\* function of the text, so each is computed once.
parsedFile == [path \in Paths |-> parseContent(FileAt(path))]

parsedConfig == parseConfig(ConfigFile)

\* What a fetch can answer: a response with response.ok, a response with
\* another status, or a network failure (the fetch promise rejects).
Responses == {"ok", "notok", "neterr"}

\* What response.text() can do: resolve with the body, or reject.
Texts == {"ok", "readerr"}

\* Non-success statuses of the configuration fetch
Statuses == {404, 500}

\* ---------------------------------------------------------------- state
VARIABLES
    contentCache,     \* DataService._contentCache: Map id -> array
    pendingRequests,  \* DataService._pendingRequests: Map id -> promise (its index)
    promises,         \* the _fetchAndParseCategoryContent invocations, each a promise
    calls,            \* the loadCategoryContent invocations, each a promise
    preloads,         \* the preloadCategories invocations
    configCalls,      \* the loadSiteConfig invocations
    nextRef,          \* identity of the next array object allocated
    clears,           \* number of clearCache calls so far
    parser,           \* the call of the parser (or of slugify) in progress
    runs,             \* the calls that have returned: function, argument, result
    configFile,       \* the markdown CONFIG_URL serves
    app,              \* app.js: where init and doPreload stand, siteConfig, the sections
    player            \* AudioPlayer and its HTMLAudioElement

vars == <<contentCache, pendingRequests, promises, calls, preloads, configCalls,
          nextRef, clears, parser, runs, configFile, app, player>>

\* The page's side: the configuration served, the application, the player.
pageVars == <<configFile, app, player>>

\* An array object: its identity and its elements.
NewArray(ref, items) == [ref |-> ref, items |-> items]

\* The value of a promise that has none yet.
NoList == NewArray(0, <<>>)

\* The service's mutable state as one value, for the operators below.
Service ==
    [cache |-> contentCache, pending |-> pendingRequests, promises |-> promises,
     calls |-> calls, nextRef |-> nextRef]

Install(S) ==
    /\ contentCache' = S.cache
    /\ pendingRequests' = S.pending
    /\ promises' = S.promises
    /\ calls' = S.calls
    /\ nextRef' = S.nextRef

\* ---------------------------------------------------------------- DataService
\* _fetchAndParseCategoryContent settles: promise p gets `state` and `value`.
\* outcome, wrote (the array put into the cache) and callsAtSettle (how many
\* loadCategoryContent calls had been made) record what happened.
Settle(S, p, state, value, outcome, wrote) ==
    [S EXCEPT !.promises[p] =
        [@ EXCEPT !.stage = "settled", !.state = state, !.value = value,
                  !.outcome = outcome, !.wrote = wrote,
                  !.callsAtSettle = Len(S.calls)]]

\* Mutant: the failure is thrown on instead of being absorbed.
AbsorbFailure_Rethrows(S, p, outcome) ==
    Settle(S, p, "rejected", NoList, outcome, NoList)

\* this._contentCache.set(id, []); return [];   (lines 93-94 and 106-107):
\* two array literals, so two arrays.
AbsorbFailure(S, p, outcome) ==
    LET cached == NewArray(S.nextRef, <<>>)
        returned == NewArray(S.nextRef + 1, <<>>)
        T == [S EXCEPT !.cache = MapSet(@, S.promises[p].id, cached),
                       !.nextRef = @ + 2]
    IN  Settle(T, p, "fulfilled", returned, outcome, cached)

\* Mutant: a response that is not ok returns [] without caching it.
onResponse_NoCacheOnNotOk(S, p, response) ==
    IF response = "notok"
    THEN Settle([S EXCEPT !.nextRef = @ + 1], p, "fulfilled",
                NewArray(S.nextRef, <<>>), "notok", NoList)
    ELSE IF response = "neterr" THEN AbsorbFailure(S, p, "neterr")
    ELSE [S EXCEPT !.promises[p].stage = "text"]

\* _fetchAndParseCategoryContent from `await fetch(path)` on (lines 89-97,
\* 104-108): the response arrives, or the fetch fails.
onResponse(S, p, response) ==
    IF response = "notok" THEN AbsorbFailure(S, p, "notok")
    ELSE IF response = "neterr" THEN AbsorbFailure(S, p, "neterr")
    ELSE [S EXCEPT !.promises[p].stage = "text"]

\* _fetchAndParseCategoryContent from `await response.text()` on (lines
\* 97-108): the body arrives, or reading it fails.
onText(S, p, text) ==
    IF text = "readerr" THEN AbsorbFailure(S, p, "readerr")
    ELSE LET items == NewArray(S.nextRef, parsedFile[S.promises[p].path])
             T == [S EXCEPT !.cache = MapSet(@, S.promises[p].id, items),
                            !.nextRef = @ + 1]
         IN  Settle(T, p, "fulfilled", items, "ok", items)

\* _fetchAndParseCategoryContent up to `await fetch(path)` (lines 87-89):
\* the fetch is issued and the promise returned.
fetchAndParseCategoryContent(S, id, path) ==
    [S EXCEPT !.promises = Append(@,
        [id |-> id, path |-> path, stage |-> "fetch", state |-> "pending",
         value |-> NoList, outcome |-> "", wrote |-> NoList, callsAtSettle |-> 0])]

\* A loadCategoryContent invocation: the branch it took, the promise it waits
\* for (0: none), and the state and value of the promise it returned.
Call(category, branch, promise, state, value) ==
    [category |-> category, branch |-> branch, promise |-> promise,
     state |-> state, value |-> value, epoch |-> clears]

\* Mutant: no look at the pending requests (lines 63-65 left out).
loadCategoryContent_NoPendingCheck(S, category) ==
    LET id == category.id
        path == category.path
    IN
    IF path = ""
    THEN [S EXCEPT !.calls = Append(@, Call(category, "nopath", 0, "fulfilled",
                                             NewArray(S.nextRef, <<>>))),
                   !.nextRef = @ + 1]
    ELSE IF MapHas(S.cache, id)
    THEN [S EXCEPT !.calls = Append(@, Call(category, "cached", 0, "fulfilled",
                                             S.cache[id]))]
    ELSE LET T == fetchAndParseCategoryContent(S, id, path)
             loadPromise == Len(T.promises)
         IN  [T EXCEPT !.pending = MapSet(@, id, loadPromise),
                       !.calls = Append(@, Call(category, "fetch", loadPromise,
                                                "pending", NoList))]

\* Mutant: no look at the cache (lines 58-60 left out).
loadCategoryContent_NoCacheCheck(S, category) ==
    LET id == category.id
        path == category.path
    IN
    IF path = ""
    THEN [S EXCEPT !.calls = Append(@, Call(category, "nopath", 0, "fulfilled",
                                             NewArray(S.nextRef, <<>>))),
                   !.nextRef = @ + 1]
    ELSE IF MapHas(S.pending, id)
    THEN [S EXCEPT !.calls = Append(@, Call(category, "pending", S.pending[id],
                                             "pending", NoList))]
    ELSE LET T == fetchAndParseCategoryContent(S, id, path)
             loadPromise == Len(T.promises)
         IN  [T EXCEPT !.pending = MapSet(@, id, loadPromise),
                       !.calls = Append(@, Call(category, "fetch", loadPromise,
                                                "pending", NoList))]

\* Mutant: the empty list of a category without path is cached under its id.
loadCategoryContent_CachesNoPath(S, category) ==
    LET id == category.id
        path == category.path
    IN
    IF path = ""
    THEN [S EXCEPT !.cache = MapSet(@, id, NewArray(S.nextRef, <<>>)),
                   !.calls = Append(@, Call(category, "nopath", 0, "fulfilled",
                                             NewArray(S.nextRef, <<>>))),
                   !.nextRef = @ + 1]
    ELSE IF MapHas(S.cache, id)
    THEN [S EXCEPT !.calls = Append(@, Call(category, "cached", 0, "fulfilled",
                                             S.cache[id]))]
    ELSE IF MapHas(S.pending, id)
    THEN [S EXCEPT !.calls = Append(@, Call(category, "pending", S.pending[id],
                                             "pending", NoList))]
    ELSE LET T == fetchAndParseCategoryContent(S, id, path)
             loadPromise == Len(T.promises)
         IN  [T EXCEPT !.pending = MapSet(@, id, loadPromise),
                       !.calls = Append(@, Call(category, "fetch", loadPromise,
                                                "pending", NoList))]

\* loadCategoryContent up to its `await` (lines 49-72).
loadCategoryContent(S, category) ==
    LET id == category.id
        path == category.path
    IN
    IF path = ""
    THEN [S EXCEPT !.calls = Append(@, Call(category, "nopath", 0, "fulfilled",
                                             NewArray(S.nextRef, <<>>))),
                   !.nextRef = @ + 1]
    ELSE IF MapHas(S.cache, id)
    THEN [S EXCEPT !.calls = Append(@, Call(category, "cached", 0, "fulfilled",
                                             S.cache[id]))]
    ELSE IF MapHas(S.pending, id)
    THEN [S EXCEPT !.calls = Append(@, Call(category, "pending", S.pending[id],
                                             "pending", NoList))]
    ELSE LET T == fetchAndParseCategoryContent(S, id, path)
             loadPromise == Len(T.promises)
         IN  [T EXCEPT !.pending = MapSet(@, id, loadPromise),
                       !.calls = Append(@, Call(category, "fetch", loadPromise,
                                                "pending", NoList))]

\* Mutant: no finally block, the pending entry stays.
resume_KeepsPending(S, c) ==
    LET p == S.calls[c].promise
    IN  [S EXCEPT !.calls[c].state = S.promises[p].state,
                  !.calls[c].value = S.promises[p].value]

\* loadCategoryContent after `await loadPromise` (lines 72-77): the finally
\* block deletes the id's pending entry, and the call settles as loadPromise did.
resume(S, c) ==
    LET p == S.calls[c].promise
    IN  [S EXCEPT !.pending = MapDelete(@, S.calls[c].category.id),
                  !.calls[c].state = S.promises[p].state,
                  !.calls[c].value = S.promises[p].value]

\* `return this._pendingRequests.get(id)` (line 64): the call's promise
\* follows the pending one.
adopt(S, c) ==
    LET p == S.calls[c].promise
    IN  [S EXCEPT !.calls[c].state = S.promises[p].state,
                  !.calls[c].value = S.promises[p].value]

\* categories.map(cat => this.loadCategoryContent(cat)) (line 117)
RECURSIVE loadAll(_, _)
loadAll(S, categories) ==
    IF categories = <<>> THEN S
    ELSE loadAll(loadCategoryContent(S, Head(categories)), Tail(categories))

\* Mutant: Promise.race in place of Promise.allSettled.
allSettled_Race(S, cs) == \E c \in cs : S.calls[c].state # "pending"

\* Promise.allSettled(loadPromises) (line 118) is fulfilled once no promise
\* of the list is pending.
allSettled(S, cs) == \A c \in cs : S.calls[c].state # "pending"

\* Mutant: only the pending requests are cleared, the cache is kept.
clearCache_PendingOnly(S) == [S EXCEPT !.pending = EmptyMap]

\* Mutant: clearCache also aborts the fetches that are in flight.
clearCache_AbortsInFlight(S) ==
    [S EXCEPT !.cache = EmptyMap, !.pending = EmptyMap,
              !.promises = [p \in 1..Len(S.promises) |->
                  IF S.promises[p].stage = "settled" THEN S.promises[p]
                  ELSE [S.promises[p] EXCEPT !.stage = "aborted"]]]

\* clearCache (lines 133-136)
clearCache(S) == [S EXCEPT !.cache = EmptyMap, !.pending = EmptyMap]

isCategoryLoaded(categoryId) == MapHas(contentCache, categoryId)

\* ---------------------------------------------------------------- event loop
\* A continuation that is ready to run.
CanResume(c) ==
    /\ calls[c].state = "pending"
    /\ promises[calls[c].promise].state # "pending"

CanSettlePreload(k) ==
    /\ preloads[k].state = "pending"
    /\ allSettled(Service, preloads[k].calls)

MicrotaskQueueEmpty ==
    /\ \A c \in 1..Len(calls) : ~CanResume(c)
    /\ \A k \in 1..Len(preloads) : ~CanSettlePreload(k)

\* ---------------------------------------------------------------- loadSiteConfig
\* What the configuration fetch can answer.
ConfigResponses ==
    { [kind |-> "ok", status |-> 200], [kind |-> "neterr", status |-> 0] }
    \cup { [kind |-> "notok", status |-> st] : st \in Statuses }

NoError == [name |-> "", status |-> 0]

\* loadSiteConfig up to `await fetch(CONFIG_URL)` (lines 32-33)
loadSiteConfig ==
    [stage |-> "fetch", state |-> "pending", response |-> "", status |-> 0,
     value |-> <<>>, error |-> NoError]

\* Mutant: response.ok is not looked at (lines 34-36 left out).
configResponse_NoOkCheck(call, response) ==
    IF response.kind = "neterr"
    THEN [call EXCEPT !.stage = "settled", !.state = "rejected", !.response = "neterr",
                      !.error = [name |-> "TypeError", status |-> 0]]
    ELSE [call EXCEPT !.stage = "text", !.response = response.kind,
                      !.status = response.status]

\* loadSiteConfig from `await fetch(CONFIG_URL)` on (lines 33-38): a failed
\* fetch rejects the call with fetch's TypeError, a response that is not ok
\* with Error(`Failed to load config: ${response.status}`).
configResponse(call, response) ==
    IF response.kind = "neterr"
    THEN [call EXCEPT !.stage = "settled", !.state = "rejected", !.response = "neterr",
                      !.error = [name |-> "TypeError", status |-> 0]]
    ELSE IF response.kind = "notok"
    THEN [call EXCEPT !.stage = "settled", !.state = "rejected", !.response = "notok",
                      !.status = response.status,
                      !.error = [name |-> "Error", status |-> response.status]]
    ELSE [call EXCEPT !.stage = "text", !.response = "ok", !.status = response.status]

\* loadSiteConfig from `await response.text()` on (lines 38-39)
configText(call, text) ==
    IF text = "readerr"
    THEN [call EXCEPT !.stage = "settled", !.state = "rejected",
                      !.error = [name |-> "TypeError", status |-> 0]]
    ELSE [call EXCEPT !.stage = "settled", !.state = "fulfilled",
                      !.value = <<parseConfig(configFile)>>]

\* ---------------------------------------------------------------- actions
\* The lists preloadCategories is called with.
PreloadLists == { <<c, d>> : c \in Categories, d \in Categories }

\* ---------------------------------------------------------------- Parser calls
\* A call of Parser.parseContent, Parser.parseConfig or slugify: md is the
\* argument, pos the line the loop is at, st the locals of the call, all
\* created by the call itself.
Idle == [fn |-> "none", pc |-> "idle", md |-> <<>>, pos |-> 0, st |-> <<>>,
         result |-> <<>>]

\* Mutant: `items` outlives the call (declared outside the function).
beginContent_KeepsItems(md) ==
    [fn |-> "parseContent", pc |-> "loop", md |-> md, pos |-> 1,
     st |-> [ContentStart EXCEPT !.items =
                IF parser.fn = "parseContent" THEN pushItem(parser.st).items
                ELSE <<>>],
     result |-> <<>>]

\* parseContent(md) up to the loop: lines 101-104
beginContent(md) ==
    [fn |-> "parseContent", pc |-> "loop", md |-> md, pos |-> 1,
     st |-> ContentStart, result |-> <<>>]

\* One iteration of `for (const line of lines)`, lines 113-250
stepContent(P) ==
    [P EXCEPT !.st = ContentLine(@, Lex(P.md[P.pos])), !.pos = @ + 1]

\* Lines 251-275
returnContent(P) == [P EXCEPT !.pc = "done", !.result = ContentResult(P.st)]

\* parseConfig(md) up to the loop: lines 7-16
beginConfig(md) ==
    [fn |-> "parseConfig", pc |-> "loop", md |-> md, pos |-> 1,
     st |-> ConfigStart, result |-> <<>>]

\* One iteration of the loop of lines 18-93
stepConfig(P) == [P EXCEPT !.st = ConfigLine(@, P.md[P.pos]), !.pos = @ + 1]

\* Lines 94-95
returnConfig(P) == [P EXCEPT !.pc = "done", !.result = ConfigResult(P.st)]

\* An argument of slugify: a string, or undefined.
Undefined == [defined |-> FALSE, text |-> <<>>]

String(text) == [defined |-> TRUE, text |-> text]

\* (s || '').toString()
OrEmpty(s) == IF s.defined THEN s.text ELSE <<>>

callSlugify(s) ==
    [fn |-> "slugify", pc |-> "done", md |-> s, pos |-> 0, st |-> <<>>,
     result |-> slugify(OrEmpty(s))]

\* ---------------------------------------------------------------- texts
SeqsUpTo(S, n) == UNION { [1..k -> S] : k \in 0..n }

RECURSIVE Flatten(_)
Flatten(ss) == IF ss = <<>> THEN <<>> ELSE Head(ss) \o Flatten(Tail(ss))

H2(title) == <<"#", "#", " ">> \o title

H3(title) == <<"#", "#", "#", " ">> \o title

Field(label, value) == <<label, ":", " ">> \o value

\* Texts of heading lines, well formed and not, and a field line.
TitleLines ==
    { H2(<<"a">>), <<"#", "#">>, <<"#", "#", "a">>, <<" ", "#", "#", " ", " ", "b", " ">>,
      H3(<<"p">>), <<"#", "#", "#">>, Field("miaoshu", <<"d">>) }

TitleDocs == SeqsUpTo(TitleLines, MaxLines)

\* Order tokens: none, numbers, and texts that are not numbers.
OrderTokens ==
    { <<>>, <<"9">>, <<"1", "0">>, <<"-", "5">>, <<"-", "A">>,
      <<"-", "I", "n", "f", "i", "n", "i", "t", "y">> }

\* A record's lines: its heading, titled by its place in the text, and
\* its order line when it has a token.
OrderedRecord(heading, i, label, token) ==
    <<heading \o <<Lower[i]>>>> \o
    (IF token = <<>> THEN <<>> ELSE <<Field(label, token)>>)

\* Items with order tokens, and a gallery with an order token whose photos
\* have order tokens.
FlatDoc(tokens) ==
    Flatten([i \in 1..Len(tokens) |->
                OrderedRecord(<<"#", "#", " ">>, i, "xuhao", tokens[i])])

GalleryDoc(parent, tokens) ==
    OrderedRecord(<<"#", "#", " ">>, 7, "zhanshixuhao", parent) \o
    Flatten([i \in 1..Len(tokens) |->
                OrderedRecord(<<"#", "#", "#", " ">>, i, "xuhao", tokens[i])])

OrderDocs ==
    { FlatDoc(tokens) : tokens \in SeqsUpTo(OrderTokens, MaxRecords) }
    \cup { GalleryDoc(parent, tokens) :
             parent \in OrderTokens, tokens \in SeqsUpTo(OrderTokens, MaxRecords) }

\* 封面 and Cover lines in image syntax, one not in image syntax, one whose
\* URL is blank, ISBN and SteamID lines, and a sub-item heading.
ExplicitCovers ==
    { Field("fengmian", <<"!", "[", "a", "]", "(", "u", ")">>),
      Field("Cover", <<"!", "[", "]", "(", " ", "v", ")">>) }

CoverLines ==
    ExplicitCovers \cup
    { Field("fengmian", <<"u">>),
      Field("fengmian", <<"!", "[", "a", "]", "(", " ", ")">>),
      Field("ISBN", <<"1">>), Field("SteamID", <<"7">>), H3(<<"p">>) }

CoverDocs == { <<H2(<<"a">>)>> \o ls : ls \in SeqsUpTo(CoverLines, MaxFieldLines) }

\* Field lines, a quantity, and headings, after no heading, after an item
\* heading, and after a sub-item heading.
GalleryLines ==
    { Field("miaoshu", <<"d">>), Field("lianjie", <<"http://", "x">>),
      Field("shuliang", <<"2">>), H3(<<"q">>), H2(<<"y">>) }

GalleryDocs ==
    { prefix \o ls :
        prefix \in { <<>>, <<H2(<<"x">>)>>, <<H2(<<"x">>), H3(<<"T">>)>> },
        ls \in SeqsUpTo(GalleryLines, MaxFieldLines) }

\* Scenario 1 of the specification: an item heading, a sub-item heading, and
\* the lines 描述, 技术栈, 状态 and 链接, each present or not, in any order.
ScenarioLines ==
    { Field("miaoshu", <<"c">>), Field("jishuzhan", <<"P">>),
      Field("zhuangtai", <<"k">>),
      Field("lianjie", <<"[", "G", "]", "(", "http://", "x", ")">>) }

ScenarioDocs ==
    { <<H2(<<"d">>), H3(<<"T">>)>> \o ls :
        ls \in { s \in SeqsUpTo(ScenarioLines, 4) :
                   \A i \in 1..Len(s) : \A j \in 1..Len(s) : s[i] = s[j] => i = j } }

\* 数量 values: integers above and not above 1, a text that is no number, and
\* a text that begins with digits.
QuantityTokens ==
    { <<"3">>, <<"1">>, <<"x">>, <<"2", "x">>, <<"-", "2">> }

QuantityLines ==
    { Field("shuliang", q) : q \in QuantityTokens } \cup { H3(<<"p">>), H2(<<"b">>) }

QuantityDocs ==
    { <<H2(<<"a">>)>> \o ls : ls \in SeqsUpTo(QuantityLines, MaxFieldLines) }

ContentDocs ==
    TitleDocs \cup OrderDocs \cup CoverDocs \cup GalleryDocs \cup ScenarioDocs
        \cup QuantityDocs

\* 展示序号 values of a category: none, integers, and a text that is no number.
ConfigOrders ==
    { <<>>, <<"0">>, <<"5">>, <<"-", "3">>, <<"x">>, <<"9", "9">>, <<"1", "0", "0">> }

CategoryDoc(orders) ==
    <<Line("##categories", <<>>)>> \o
    Flatten([i \in 1..Len(orders) |->
                <<Line("###", <<Upper[i]>>)>> \o
                (IF orders[i] = <<>> THEN <<>>
                 ELSE <<Line("zhanshixuhao", orders[i])>>)])

\* Lines of a configuration text: the three section headings, a category
\* heading, a field of each record, and a line that is blank or matches
\* nothing.
SectionLines ==
    { Line("##blog", <<>>), Line("##author", <<>>), Line("##categories", <<>>),
      Line("###", <<"A">>), Line("bokemingcheng", <<"x">>),
      Line("Email", <<"n", "<", "y", ">">>), Line("zhanshixuhao", <<"2">>),
      Line("", <<>>) }

SectionDocs == SeqsUpTo(SectionLines, MaxConfigLines)

ConfigDocs ==
    { CategoryDoc(orders) : orders \in SeqsUpTo(ConfigOrders, MaxCategories) }
    \cup {ConfigFile} \cup SectionDocs

\* Arguments of slugify
SlugChars == {"A", "b", "1", " ", "-", "_", ".", "!"}

SlugArgs == {Undefined} \cup { String(text) : text \in SeqsUpTo(SlugChars, MaxSlugLen) }

\* A few texts to parse again and again.
AgainContentDocs ==
    { <<>>,
      <<H2(<<"a">>), Field("xuhao", <<"1", "0">>), H2(<<"b">>), Field("xuhao", <<"9">>)>>,
      <<H2(<<"a">>), H3(<<"p">>), Field("miaoshu", <<"d">>)>> }

AgainConfigDocs == { ConfigFile, CategoryDoc(<<<<"5">>, <<"0">>>>) }


\* app.js before init() runs: siteConfig is null (line 13) and the page has
\* no section.  pc: where init and doPreload stand; config and call: the
\* loadSiteConfig and loadCategoryContent calls awaited; index: the category
\* being loaded; sections: the ids that have a section element; loaded: those
\* marked data-loaded; loads: for each loadCategoryContent call, the
\* category it was made for; rendered: the categories rendered, in order.
AppStart ==
    [pc |-> "start", categories |-> <<>>, config |-> 0, index |-> 0, call |-> 0,
     sections |-> {}, loaded |-> {}, loads |-> <<>>, rendered |-> <<>>]

\* The AudioPlayer object literal (audio-player.js lines 64-69): no audio
\* element, an empty playlist.
\* src, paused and plays are the audio element's: whether it has a source, its
\* paused attribute and the promises
\* its play() has returned; events, called and sincePause record what was
\* emitted, how many methods were called and whether pause() ran in the last.
NewPlayer ==
    [audio |-> FALSE, playlist |-> <<>>, currentIndex |-> 0, isPlaying |-> FALSE,
     src |-> FALSE, paused |-> TRUE, plays |-> <<>>, events |-> <<>>, called |-> 0,
     sincePause |-> FALSE]

Init ==
    /\ contentCache = EmptyMap
    /\ pendingRequests = EmptyMap
    /\ promises = <<>>
    /\ calls = <<>>
    /\ preloads = <<>>
    /\ configCalls = <<>>
    /\ nextRef = 1
    /\ clears = 0
    /\ parser = Idle
    /\ runs = <<>>
    /\ configFile = ConfigFile
    /\ app = AppStart
    /\ player = NewPlayer

\* A task: the page calls loadCategoryContent(category).
LoadCategoryContent ==
    /\ MicrotaskQueueEmpty
    /\ Len(calls) < MaxCalls
    /\ \E category \in Categories : Install(loadCategoryContent(Service, category))
    /\ UNCHANGED <<preloads, configCalls, clears, parser, runs, pageVars>>

\* A task: the page calls preloadCategories(categories) (lines 116-118).
PreloadCategories ==
    /\ MicrotaskQueueEmpty
    /\ Len(preloads) < MaxPreloads
    /\ \E categories \in PreloadLists :
          /\ Len(calls) + Len(categories) <= MaxCalls
          /\ Install(loadAll(Service, categories))
          /\ preloads' = Append(preloads,
                [categories |-> categories,
                 calls |-> (Len(calls) + 1)..(Len(calls) + Len(categories)),
                 state |-> "pending", epoch |-> clears])
    /\ UNCHANGED <<configCalls, clears, parser, runs, pageVars>>

\* A task: the page calls clearCache().
ClearCache ==
    /\ MicrotaskQueueEmpty
    /\ clears < MaxClears
    /\ Install(clearCache(Service))
    /\ clears' = clears + 1
    /\ UNCHANGED <<preloads, configCalls, parser, runs, pageVars>>

\* A task: the answer to a category fetch arrives.
FetchResponds ==
    /\ MicrotaskQueueEmpty
    /\ \E p \in 1..Len(promises), response \in Responses :
          /\ promises[p].stage = "fetch"
          /\ Install(onResponse(Service, p, response))
    /\ UNCHANGED <<preloads, configCalls, clears, parser, runs, pageVars>>

\* A task: the body of a category response has been read, or could not be.
TextArrives ==
    /\ MicrotaskQueueEmpty
    /\ \E p \in 1..Len(promises), text \in Texts :
          /\ promises[p].stage = "text"
          /\ Install(onText(Service, p, text))
    /\ UNCHANGED <<preloads, configCalls, clears, parser, runs, pageVars>>

\* A microtask: the call that issued a fetch resumes after `await loadPromise`.
Resume ==
    /\ \E c \in 1..Len(calls) :
          /\ CanResume(c)
          /\ calls[c].branch = "fetch"
          /\ Install(resume(Service, c))
    /\ UNCHANGED <<preloads, configCalls, clears, parser, runs, pageVars>>

\* A microtask: a call that returned the pending promise settles with it.  It
\* takes two more ticks than the issuing call's continuation, so it runs later.
Adopt ==
    /\ \E c \in 1..Len(calls) :
          /\ CanResume(c)
          /\ calls[c].branch = "pending"
          /\ \A d \in 1..Len(calls) : ~(CanResume(d) /\ calls[d].branch = "fetch")
          /\ Install(adopt(Service, c))
    /\ UNCHANGED <<preloads, configCalls, clears, parser, runs, pageVars>>

\* A microtask: preloadCategories resumes after `await Promise.allSettled`.
SettlePreload ==
    /\ \E k \in 1..Len(preloads) :
          /\ CanSettlePreload(k)
          /\ preloads' = [preloads EXCEPT ![k].state = "fulfilled"]
    /\ UNCHANGED <<contentCache, pendingRequests, promises, calls, configCalls,
                   nextRef, clears,
                   parser, runs, pageVars>>

\* A task: the page calls loadSiteConfig().
LoadSiteConfig ==
    /\ MicrotaskQueueEmpty
    /\ Len(configCalls) < MaxConfigCalls
    /\ configCalls' = Append(configCalls, loadSiteConfig)
    /\ UNCHANGED <<contentCache, pendingRequests, promises, calls, preloads,
                   nextRef, clears,
                   parser, runs, pageVars>>

\* A task: the answer to the configuration fetch arrives.
ConfigResponds ==
    /\ MicrotaskQueueEmpty
    /\ \E k \in 1..Len(configCalls), response \in ConfigResponses :
          /\ configCalls[k].stage = "fetch"
          /\ configCalls' = [configCalls EXCEPT ![k] = configResponse(@, response)]
    /\ UNCHANGED <<contentCache, pendingRequests, promises, calls, preloads,
                   nextRef, clears,
                   parser, runs, pageVars>>

\* A task: the body of the configuration response has been read, or could not be.
ConfigTextArrives ==
    /\ MicrotaskQueueEmpty
    /\ \E k \in 1..Len(configCalls), text \in Texts :
          /\ configCalls[k].stage = "text"
          /\ configCalls' = [configCalls EXCEPT ![k] = configText(@, text)]
    /\ UNCHANGED <<contentCache, pendingRequests, promises, calls, preloads,
                   nextRef, clears,
                   parser, runs, pageVars>>

\* The Data Service's category side.
Next ==
    \/ LoadCategoryContent
    \/ PreloadCategories
    \/ ClearCache
    \/ FetchResponds
    \/ TextArrives
    \/ Resume
    \/ Adopt
    \/ SettlePreload

Spec == Init /\ [][Next]_vars

\* The Data Service's configuration side, beside category loads.
NextConfig ==
    \/ LoadSiteConfig
    \/ ConfigResponds
    \/ ConfigTextArrives
    \/ LoadCategoryContent
    \/ FetchResponds
    \/ TextArrives
    \/ Resume
    \/ Adopt

ConfigSpec == Init /\ [][NextConfig]_vars

\* Direct category loads and clearCache, under fair scheduling: every
\* response that is on its way arrives, every body is read or fails to be,
\* and the event loop runs every microtask.
NextFair ==
    \/ LoadCategoryContent
    \/ ClearCache
    \/ FetchResponds
    \/ TextArrives
    \/ Resume
    \/ Adopt

FairSpec ==
    /\ Init
    /\ [][NextFair]_vars
    /\ WF_vars(FetchResponds)
    /\ WF_vars(TextArrives)
    /\ WF_vars(Resume)
    /\ WF_vars(Adopt)

\* ---------------------------------------------------------------- Parser steps
serviceVars ==
    <<contentCache, pendingRequests, promises, calls, preloads, configCalls,
      nextRef, clears>>

\* No call is in progress and fewer than `limit` have been made.
CanCall(limit) == parser.pc \in {"idle", "done"} /\ Len(runs) < limit

Returned(P) == Append(runs, [fn |-> P.fn, md |-> P.md, result |-> P.result])

\* Parser.parseContent(md) is called.
ParseContent(docs, limit) ==
    /\ CanCall(limit)
    /\ \E md \in docs : parser' = beginContent(md)
    /\ UNCHANGED <<serviceVars, runs, pageVars>>

\* The loop of parseContent takes the next line.
ContentStep ==
    /\ parser.fn = "parseContent" /\ parser.pc = "loop"
    /\ parser.pos <= Len(parser.md)
    /\ parser' = stepContent(parser)
    /\ UNCHANGED <<serviceVars, runs, pageVars>>

\* parseContent has read every line and returns.
ContentReturns ==
    /\ parser.fn = "parseContent" /\ parser.pc = "loop"
    /\ parser.pos > Len(parser.md)
    /\ parser' = returnContent(parser)
    /\ runs' = Returned(returnContent(parser))
    /\ UNCHANGED <<serviceVars, pageVars>>

\* Parser.parseConfig(md) is called.
ParseConfig(docs, limit) ==
    /\ CanCall(limit)
    /\ \E md \in docs : parser' = beginConfig(md)
    /\ UNCHANGED <<serviceVars, runs, pageVars>>

\* The loop of parseConfig takes the next line.
ConfigStep ==
    /\ parser.fn = "parseConfig" /\ parser.pc = "loop"
    /\ parser.pos <= Len(parser.md)
    /\ parser' = stepConfig(parser)
    /\ UNCHANGED <<serviceVars, runs, pageVars>>

\* parseConfig has read every line and returns.
ConfigReturns ==
    /\ parser.fn = "parseConfig" /\ parser.pc = "loop"
    /\ parser.pos > Len(parser.md)
    /\ parser' = returnConfig(parser)
    /\ runs' = Returned(returnConfig(parser))
    /\ UNCHANGED <<serviceVars, pageVars>>

\* slugify(s) is called and returns.
Slugify ==
    /\ CanCall(1)
    /\ \E s \in SlugArgs :
          /\ parser' = callSlugify(s)
          /\ runs' = Returned(callSlugify(s))
    /\ UNCHANGED <<serviceVars, pageVars>>

\* One call of the parser or of slugify, on any of the texts.
NextParser ==
    \/ ParseContent(ContentDocs, 1)
    \/ ContentStep
    \/ ContentReturns
    \/ ParseConfig(ConfigDocs, 1)
    \/ ConfigStep
    \/ ConfigReturns
    \/ Slugify

ParserSpec == Init /\ [][NextParser]_vars

\* Calls of the parser one after the other, on a few texts.
NextAgain ==
    \/ ParseContent(AgainContentDocs, MaxRuns)
    \/ ContentStep
    \/ ContentReturns
    \/ ParseConfig(AgainConfigDocs, MaxRuns)
    \/ ConfigStep
    \/ ConfigReturns

AgainSpec == Init /\ [][NextAgain]_vars

\* ---------------------------------------------------------------- app.js
\* The configurations the site can serve: a 展示类别 section of up to
\* MaxAppCategories categories, each with a title (three of them give
\* different ids, one gives the empty id) and with or without a content file, and
\* either no 展示序号 at all or descending ones, so that the sorted order is
\* the reverse of the order in the file.
SiteTitles == { <<"G">>, <<"P">>, <<"Q">>, <<"!">> }

\* The path of a content file is one symbol of the text.
SitePaths == { <<>>, <<"games.md">> }

DescendingOrders == <<"9", "8", "7", "6", "5", "4", "3", "2", "1">>

SiteFile(cats, ordered) ==
    <<Line("##categories", <<>>)>> \o
    Flatten([i \in 1..Len(cats) |->
                <<Line("###", cats[i].title)>>
                \o (IF ordered THEN <<Line("zhanshixuhao", <<DescendingOrders[i]>>)>>
                    ELSE <<>>)
                \o (IF cats[i].path = <<>> THEN <<>>
                    ELSE <<Line("lianjie", cats[i].path)>>)])

SiteFiles ==
    { SiteFile(cats, ordered) :
        cats \in SeqsUpTo([title : SiteTitles, path : SitePaths], MaxAppCategories),
        ordered \in BOOLEAN }

\* The category object as loadCategoryContent reads it: its id, and its path,
\* "" when it has none.
CategoryMeta(category) ==
    [id |-> category.id,
     path |-> IF category.path = <<>> THEN "" ELSE Head(category.path)]

\* renderContentSkeleton: a section element for each category, found again
\* by document.getElementById(id), which finds nothing for the empty id.
SectionIds(categories) ==
    { categories[i].id : i \in 1..Len(categories) } \ {<<>>}

\* loadAndRenderSection(categories[k]) up to its `await` (app.js lines
\* 73-86): it returns at once when the section element is not found or is
\* loaded already, and calls DataService.loadCategoryContent otherwise.
EnterSection(A, k) ==
    LET category == A.categories[k]
    IN  IF category.id \notin A.sections \/ category.id \in A.loaded
        THEN /\ app' = [A EXCEPT !.pc = "returned", !.index = k, !.call = 0]
             /\ UNCHANGED <<contentCache, pendingRequests, promises, calls, nextRef>>
        ELSE /\ Install(loadCategoryContent(Service, CategoryMeta(category)))
             /\ app' = [A EXCEPT !.pc = "load", !.index = k, !.call = Len(calls) + 1,
                                 !.loads = Append(@, k)]

\* A task: the script runs init() up to `await DataService.loadSiteConfig()`
\* (lines 25-31).
AppInit ==
    /\ app.pc = "start"
    /\ configCalls' = Append(configCalls, loadSiteConfig)
    /\ app' = [app EXCEPT !.pc = "config", !.config = Len(configCalls) + 1]
    /\ UNCHANGED <<contentCache, pendingRequests, promises, calls, preloads,
                   nextRef, clears, parser, runs, configFile, player>>

\* A microtask: init resumes after `await DataService.loadSiteConfig()`.  A
\* rejection goes to the catch block (lines 50-64); otherwise the skeleton
\* is rendered and the first category, if there is one, is loaded (lines
\* 34-43); with no category preloadRemainingCategories returns at once.
AppConfigSettles ==
    /\ app.pc = "config"
    /\ configCalls[app.config].stage = "settled"
    /\ IF configCalls[app.config].state = "rejected"
       THEN /\ app' = [app EXCEPT !.pc = "failed"]
            /\ UNCHANGED <<contentCache, pendingRequests, promises, calls, nextRef>>
       ELSE LET categories == configCalls[app.config].value[1].categories
                A == [app EXCEPT !.categories = categories,
                                 !.sections = SectionIds(categories)]
            IN  IF categories = <<>>
                THEN /\ app' = [A EXCEPT !.pc = "done"]
                     /\ UNCHANGED <<contentCache, pendingRequests, promises, calls,
                                    nextRef>>
                ELSE EnterSection(A, 1)
    /\ UNCHANGED <<preloads, configCalls, clears, parser, runs, configFile, player>>

\* A microtask: loadAndRenderSection resumes after
\* `await DataService.loadCategoryContent(category)` (lines 86-97): the
\* section is rendered and marked loaded.  Were the load rejected, init would
\* go to its catch block and doPreload to the next category.  No category of
\* SiteFiles is of type music.
AppSectionArrives ==
    /\ app.pc = "load"
    /\ calls[app.call].state # "pending"
    /\ app' = IF calls[app.call].state = "fulfilled"
              THEN [app EXCEPT !.pc = "returned",
                               !.loaded = @ \cup {app.categories[app.index].id},
                               !.rendered = Append(@, app.index)]
              ELSE IF app.index = 1 THEN [app EXCEPT !.pc = "failed"]
              ELSE [app EXCEPT !.pc = "returned"]
    /\ UNCHANGED <<serviceVars, parser, runs, configFile, player>>

\* A microtask: the caller of loadAndRenderSection resumes after its `await`.
\* init (lines 45-48) hands the other categories to
\* preloadRemainingCategories, which returns when there is none and asks for
\* an idle callback or a timer otherwise (lines 106-128); doPreload (lines
\* 113-119) goes on to the next category.
AppContinue ==
    /\ app.pc = "returned"
    /\ IF app.index = 1
       THEN /\ app' = [app EXCEPT !.pc = IF Len(app.categories) = 1 THEN "done"
                                         ELSE "scheduled"]
            /\ UNCHANGED <<contentCache, pendingRequests, promises, calls, nextRef>>
       ELSE IF app.index = Len(app.categories)
       THEN /\ app' = [app EXCEPT !.pc = "done"]
            /\ UNCHANGED <<contentCache, pendingRequests, promises, calls, nextRef>>
       ELSE EnterSection(app, app.index + 1)
    /\ UNCHANGED <<preloads, configCalls, clears, parser, runs, configFile, player>>

\* Mutant: doPreload calls loadCategoryContent for all the other categories
\* at once and waits for the last.
AppIdle_AllAtOnce ==
    /\ app.pc = "scheduled"
    /\ MicrotaskQueueEmpty
    /\ LET rest == [i \in 1..(Len(app.categories) - 1) |->
                      CategoryMeta(app.categories[i + 1])]
       IN  /\ Install(loadAll(Service, rest))
           /\ app' = [app EXCEPT !.pc = "load", !.index = Len(app.categories),
                                 !.call = Len(calls) + Len(rest),
                                 !.loads = @ \o [i \in 1..Len(rest) |-> i + 1]]
    /\ UNCHANGED <<preloads, configCalls, clears, parser, runs, configFile, player>>

\* A task: the idle callback or the timer runs doPreload, which starts with
\* the second category.
AppIdle ==
    /\ app.pc = "scheduled"
    /\ MicrotaskQueueEmpty
    /\ EnterSection(app, 2)
    /\ UNCHANGED <<preloads, configCalls, clears, parser, runs, configFile, player>>

\* The page starts with any of the configurations.
InitApp ==
    /\ contentCache = EmptyMap
    /\ pendingRequests = EmptyMap
    /\ promises = <<>>
    /\ calls = <<>>
    /\ preloads = <<>>
    /\ configCalls = <<>>
    /\ nextRef = 1
    /\ clears = 0
    /\ parser = Idle
    /\ runs = <<>>
    /\ configFile \in SiteFiles
    /\ app = AppStart
    /\ player = NewPlayer

\* Start-up: init, the configuration fetch, the category fetches and the
\* continuations.
NextApp ==
    \/ AppInit
    \/ ConfigResponds
    \/ ConfigTextArrives
    \/ AppConfigSettles
    \/ FetchResponds
    \/ TextArrives
    \/ Resume
    \/ AppSectionArrives
    \/ AppContinue
    \/ AppIdle

AppSpec == InitApp /\ [][NextApp]_vars

\* ---------------------------------------------------------------- audio-player.js
\* The playlists AudioPlayer.init is given: tracks with and without an
\* audioPreview.
Playlists ==
    { pl \in SeqsUpTo([audioPreview : BOOLEAN], MaxTracks) : pl # <<>> }

\* EventBus.emit(event, index)
Emit(P, event, index) ==
    [P EXCEPT !.events = Append(@, [event |-> event, index |-> index])]

\* The reaction to a settled audio.play() promise: the then and catch
\* callbacks of loadTrack (lines 148-156) and of toggle (lines 183-187).
Reaction(P, i) ==
    LET play == P.plays[i]
    IN  IF play.state = "fulfilled"
        THEN Emit([P EXCEPT !.isPlaying = TRUE], "audio:play",
                  IF play.from = "loadTrack" THEN play.index ELSE P.currentIndex)
        ELSE IF play.from = "loadTrack"
        THEN Emit([P EXCEPT !.isPlaying = FALSE], "audio:pause", play.index)
        ELSE P

RECURSIVE Reactions(_, _)
Reactions(P, is) ==
    IF is = <<>> THEN P ELSE Reactions(Reaction(P, Head(is)), Tail(is))

\* The promises of `is`, in order, as a sequence.
RECURSIVE Ascending(_)
Ascending(is) ==
    IF is = {} THEN <<>>
    ELSE LET i == CHOOSE x \in is : \A y \in is : x <= y
         IN  <<i>> \o Ascending(is \ {i})

\* this.audio.play() (lines 147, 182), as the HTML Standard has it for media
\* elements: when playing is not allowed the promise returned is rejected;
\* otherwise paused becomes false and the promise joins the pending play
\* promises.
audioPlay(P, from, index, allowed) ==
    [P EXCEPT !.paused = IF allowed THEN FALSE ELSE @,
              !.plays = Append(@, [state |-> IF allowed THEN "pending" ELSE "rejected",
                                   from |-> from, index |-> index,
                                   reacted |-> FALSE])]

\* this.audio.pause() (line 173): when paused is false it becomes true, and
\* the pending play promises are taken, a task being queued that rejects
\* them; a promise that a queued task is about to resolve is pending no more
\* and is left alone.
audioPause(P) ==
    IF P.paused THEN P
    ELSE [P EXCEPT !.paused = TRUE,
                   !.plays = [i \in 1..Len(P.plays) |->
                                 IF P.plays[i].state = "pending"
                                 THEN [P.plays[i] EXCEPT !.state = "rejecting"]
                                 ELSE P.plays[i]]]

\* this.audio.src = ... (line 137), the load algorithm: the queued tasks that
\* would resolve or reject play promises are carried out at once, the
\* pending play promises are rejected, and paused becomes true.
audioLoad(P) ==
    [P EXCEPT !.src = TRUE,
              !.paused = TRUE,
              !.plays = [i \in 1..Len(P.plays) |->
                            IF P.plays[i].state = "resolving"
                            THEN [P.plays[i] EXCEPT !.state = "fulfilled"]
                            ELSE IF P.plays[i].state \in {"pending", "rejecting"}
                            THEN [P.plays[i] EXCEPT !.state = "rejected"]
                            ELSE P.plays[i]]]

\* The microtasks that follow a script: the callbacks of the play promises
\* that have settled and have not been reacted to, in order.
Microtasks(P) ==
    LET settled == { i \in 1..Len(P.plays) :
                       /\ P.plays[i].state \in {"fulfilled", "rejected"}
                       /\ ~P.plays[i].reacted }
        Q == Reactions(P, Ascending(settled))
    IN  [Q EXCEPT !.plays = [i \in 1..Len(Q.plays) |->
                                IF i \in settled
                                THEN [Q.plays[i] EXCEPT !.reacted = TRUE]
                                ELSE Q.plays[i]]]

\* pause() (lines 172-176)
pause(P) ==
    Emit([audioPause(P) EXCEPT !.isPlaying = FALSE, !.sincePause = TRUE],
         "audio:pause", P.currentIndex)

\* loadTrack(index, autoPlay) (lines 130-162); `allowed`: whether the browser
\* lets audio.play() start.
loadTrack(P, index, autoPlay, allowed) ==
    IF index < 0 \/ index >= Len(P.playlist) THEN P
    ELSE LET Q == [P EXCEPT !.currentIndex = index]
         IN  IF P.audio /\ P.playlist[index + 1].audioPreview
             THEN LET R == Emit(audioLoad(Q), "audio:trackchange", index)
                  IN  IF autoPlay THEN audioPlay(R, "loadTrack", index, allowed)
                      ELSE Emit([R EXCEPT !.isPlaying = FALSE], "audio:pause", index)
             ELSE Q

\* play(index) (lines 164-170)
play(P, index, allowed) ==
    IF index = P.currentIndex /\ P.isPlaying THEN pause(P)
    ELSE loadTrack(P, index, TRUE, allowed)

\* toggle() (lines 178-189)
toggle(P, allowed) ==
    IF P.isPlaying THEN pause(P)
    ELSE IF P.audio THEN audioPlay(P, "toggle", P.currentIndex, allowed)
    ELSE P

\* prev() (lines 191-194)
prev(P, allowed) ==
    loadTrack(P, IF P.currentIndex > 0 THEN P.currentIndex - 1
                 ELSE Len(P.playlist) - 1,
              TRUE, allowed)

\* next() (lines 196-199)
next(P, allowed) ==
    loadTrack(P, IF P.currentIndex < Len(P.playlist) - 1 THEN P.currentIndex + 1
                 ELSE 0,
              TRUE, allowed)

\* A method of the player is called: sincePause says whether pause() ran in
\* the call, the microtasks follow the script.
Called(P) == Microtasks([P EXCEPT !.called = @ + 1])

Fresh(P) == [P EXCEPT !.sincePause = FALSE]

otherVars == <<serviceVars, parser, runs, configFile, app>>

\* A task: AudioPlayer.init(playlist) (lines 78-97).
PlayerInit ==
    /\ ~player.audio
    /\ \E playlist \in Playlists :
          player' = Microtasks(loadTrack([player EXCEPT !.playlist = playlist,
                                                        !.currentIndex = 0,
                                                        !.isPlaying = FALSE,
                                                        !.audio = TRUE],
                                         0, FALSE, TRUE))
    /\ UNCHANGED otherVars

CanCallPlayer == player.audio /\ player.called < MaxPlayerCalls

\* A task: a click on a playlist item calls play(index).
Play ==
    /\ CanCallPlayer
    /\ \E index \in 0..(Len(player.playlist) - 1), allowed \in BOOLEAN :
          player' = Called(play(Fresh(player), index, allowed))
    /\ UNCHANGED otherVars

\* A task: pause() is called.
Pause ==
    /\ CanCallPlayer
    /\ player' = Called(pause(player))
    /\ UNCHANGED otherVars

\* A task: a click on the play button calls toggle().
Toggle ==
    /\ CanCallPlayer
    /\ \E allowed \in BOOLEAN : player' = Called(toggle(Fresh(player), allowed))
    /\ UNCHANGED otherVars

\* A task: a click on the previous button calls prev().
PrevTrack ==
    /\ CanCallPlayer
    /\ \E allowed \in BOOLEAN : player' = Called(prev(Fresh(player), allowed))
    /\ UNCHANGED otherVars

\* A task: a click on the next button, or the `ended` event of the audio
\* element (line 102), calls next().
NextTrack ==
    /\ CanCallPlayer
    /\ \E allowed \in BOOLEAN : player' = Called(next(Fresh(player), allowed))
    /\ UNCHANGED otherVars

\* The browser: playback of the source starts.  The pending play promises are taken and a
\* task that resolves them is queued.
PlaybackStarts ==
    /\ player.src
    /\ ~player.paused
    /\ \E i \in 1..Len(player.plays) : player.plays[i].state = "pending"
    /\ player' = [player EXCEPT !.plays =
                     [i \in 1..Len(player.plays) |->
                         IF player.plays[i].state = "pending"
                         THEN [player.plays[i] EXCEPT !.state = "resolving"]
                         ELSE player.plays[i]]]
    /\ UNCHANGED otherVars

\* A task: the `error` event of the audio element (lines 115-119): the
\* handler emits the error and calls pause().
ErrorEvent ==
    /\ CanCallPlayer
    /\ player.src
    /\ player' = Called(pause(Emit(player, "audio:error", player.currentIndex)))
    /\ UNCHANGED otherVars

\* A queued task of the audio element resolves or rejects a play promise it
\* has taken; the callbacks follow as microtasks.
PlayPromiseSettles ==
    /\ \E i \in 1..Len(player.plays) :
          /\ player.plays[i].state \in {"resolving", "rejecting"}
          /\ \A j \in 1..(i - 1) : player.plays[j].state \notin {"resolving", "rejecting"}
          /\ player' = Microtasks([player EXCEPT !.plays[i].state =
                                      IF @ = "resolving" THEN "fulfilled"
                                      ELSE "rejected"])
    /\ UNCHANGED otherVars

\* The player: its methods as the page calls them, and the audio element.
NextPlayer ==
    \/ PlayerInit
    \/ Play
    \/ Pause
    \/ Toggle
    \/ PrevTrack
    \/ NextTrack
    \/ PlaybackStarts
    \/ ErrorEvent
    \/ PlayPromiseSettles

PlayerSpec == Init /\ [][NextPlayer]_vars

\* ---------------------------------------------------------------- claims
Failures == {"notok", "neterr", "readerr"}

\* Call j was made while the promise of call i had not settled.
MadeBeforeSettled(i, j) ==
    LET P == promises[calls[i].promise]
    IN  i <= j /\ (P.stage # "settled" \/ P.callsAtSettle >= j)

\* Calls i and j ask for the same id, both with a path; i issued a fetch, j
\* came before that fetch resolved and no clearCache ran between the two.
ConcurrentPair(i, j) ==
    /\ calls[i].branch = "fetch"
    /\ calls[j].category.id = calls[i].category.id
    /\ calls[j].category.path # ""
    /\ MadeBeforeSettled(i, j)
    /\ calls[j].epoch = calls[i].epoch

\* The fetches issued for the id of call i by the calls i..j
FetchesIssued(i, j) ==
    { calls[k].promise : k \in { x \in i..j : /\ calls[x].branch = "fetch"
                                             /\ calls[x].category.id = calls[i].category.id } }

\* C1: two loadCategoryContent calls for the same category (same id, with a
\* path), the second made before the first one's fetch has resolved and with
\* no clearCache between them, issue exactly one network fetch for that
\* category: the second call issues none, and when it does not find the id
\* cached it waits for the first one's promise.
C1_RequestDeduplication ==
    \A i \in 1..Len(calls) : \A j \in 1..Len(calls) :
        (i < j /\ ConcurrentPair(i, j)) =>
            /\ FetchesIssued(i, j) = {calls[i].promise}
            /\ calls[j].branch \in {"pending", "cached"}
            /\ calls[j].branch = "pending" => calls[j].promise = calls[i].promise

\* Two calls for one category, the second made while the first fetch was in
\* flight and served by the first one's promise, and both resolved.
C1_Witness ==
    \E i \in 1..Len(calls) : \E j \in 1..Len(calls) :
        /\ i < j /\ ConcurrentPair(i, j)
        /\ calls[i].category = calls[j].category
        /\ calls[j].branch = "pending"
        /\ calls[i].state = "fulfilled" /\ calls[j].state = "fulfilled"

InFlight(id) ==
    { p \in 1..Len(promises) : promises[p].id = id /\ promises[p].stage # "settled" }

\* C2: in every reachable state at most one fetch is in flight for each
\* category id, whatever the interleaving of loadCategoryContent,
\* preloadCategories, clearCache and fetch completions.
C2_AtMostOneInFlight == \A id \in Ids : Cardinality(InFlight(id)) <= 1

\* C3: every caller that asks for an id while the fetch issued for it is
\* unresolved resolves to the list that fetch produced, which is the very
\* array stored in the cache.
C3_SameListForConcurrentCallers ==
    \A i \in 1..Len(calls) : \A j \in 1..Len(calls) :
        ( /\ calls[i].branch = "fetch"
          /\ calls[j].category.id = calls[i].category.id
          /\ calls[j].category.path # ""
          /\ MadeBeforeSettled(i, j)
          /\ calls[i].state = "fulfilled" /\ calls[j].state = "fulfilled" ) =>
            /\ calls[j].value = calls[i].value
            /\ calls[j].value = promises[calls[i].promise].wrote

\* C4: the promise of loadCategoryContent never rejects; when the fetch got
\* a non-success status, failed at network level, or its body could not be
\* read, the promise resolves to an empty list.
C4_FailureAbsorbed ==
    \A c \in 1..Len(calls) :
        /\ calls[c].state # "rejected"
        /\ ( /\ calls[c].promise # 0
             /\ promises[calls[c].promise].stage = "settled"
             /\ promises[calls[c].promise].outcome \in Failures
             /\ calls[c].state # "pending" ) =>
                 /\ calls[c].state = "fulfilled"
                 /\ calls[c].value.items = <<>>

\* Within one run a call resolved after a failed body read and another after
\* a failed fetch.
C4_Witness ==
    \E c \in 1..Len(calls) : \E d \in 1..Len(calls) :
        /\ calls[c].state = "fulfilled" /\ calls[c].branch = "fetch"
        /\ promises[calls[c].promise].outcome = "readerr"
        /\ calls[d].state = "fulfilled" /\ calls[d].branch = "fetch"
        /\ promises[calls[d].promise].outcome \in {"notok", "neterr"}

\* Call c resolves in this step.
Resolves(c) == calls[c].state = "pending" /\ calls'[c].state = "fulfilled"

\* C5: when loadCategoryContent resolves for a category whose fetch failed
\* (non-success status or network failure), the cache holds an empty list
\* for the id, so isCategoryLoaded(id) is true.
C5_FailureCached ==
    [][ \A c \in 1..Len(calls) :
          (Resolves(c) /\ promises[calls[c].promise].outcome \in {"notok", "neterr"}) =>
              /\ isCategoryLoaded(calls[c].category.id)'
              /\ contentCache'[calls[c].category.id].items = <<>> ]_vars

\* A call resolved after a non-success status and its id reads as loaded.
C5_Witness ==
    \E c \in 1..Len(calls) :
        /\ calls[c].state = "fulfilled" /\ calls[c].branch = "fetch"
        /\ promises[calls[c].promise].outcome = "notok"
        /\ isCategoryLoaded(calls[c].category.id)
        /\ contentCache[calls[c].category.id].items = <<>>

\* This step is one loadCategoryContent(category) call by the page.
DirectCall(category) ==
    /\ Len(calls') = Len(calls) + 1
    /\ preloads' = preloads
    /\ calls'[Len(calls')].category = category

C7_NoPath ==
    [][ \A category \in Categories :
          (DirectCall(category) /\ category.path = "") =>
              /\ calls'[Len(calls')].state = "fulfilled"
              /\ calls'[Len(calls')].value.items = <<>>
              /\ promises' = promises
              /\ contentCache' = contentCache
              /\ pendingRequests' = pendingRequests
              /\ isCategoryLoaded(category.id)' = isCategoryLoaded(category.id) ]_vars

\* A category without path was asked for while its id was not loaded, and
\* the id is still not loaded although another id is.
C7_Witness ==
    \E c \in 1..Len(calls) :
        /\ calls[c].category.path = ""
        /\ calls[c].state = "fulfilled"
        /\ ~isCategoryLoaded(calls[c].category.id)
        /\ contentCache # EmptyMap

\* C8: loadSiteConfig rejects when the configuration fetch answers a
\* non-success status (the error carries that status) or fails at network
\* level, resolves to the parsed SiteConfig only when the fetch succeeded,
\* and never touches the category cache.
C8_ConfigErrorsPropagate ==
    /\ [] \A k \in 1..Len(configCalls) :
            LET call == configCalls[k] IN
            /\ call.response \in {"notok", "neterr"} => call.state = "rejected"
            /\ call.response = "notok" =>
                   /\ call.error.name = "Error"
                   /\ call.error.status = call.status
                   /\ call.status \in Statuses
            /\ call.state = "fulfilled" =>
                   /\ call.response = "ok"
                   /\ call.value = <<parsedConfig>>
    /\ [][ configCalls' # configCalls =>
             /\ contentCache' = contentCache
             /\ pendingRequests' = pendingRequests ]_vars

\* The configuration load was rejected with status 404 while the category
\* cache held content.
C8_Witness ==
    \E k \in 1..Len(configCalls) :
        /\ configCalls[k].state = "rejected"
        /\ configCalls[k].error.status = 404
        /\ contentCache # EmptyMap

\* preloadCategories call k resolves in this step.
PreloadResolves(k) == preloads[k].state = "pending" /\ preloads'[k].state # "pending"

WithPath(k) ==
    { preloads[k].categories[n] : n \in { m \in 1..Len(preloads[k].categories) :
                                            preloads[k].categories[m].path # "" } }

\* C9 as claimed: preloadCategories resolves only after every load has
\* settled, never rejects, and when it resolves every given category with a
\* path is in the cache.
C9_PreloadFillsCache ==
    [][ \A k \in 1..Len(preloads) :
          PreloadResolves(k) =>
              /\ preloads'[k].state = "fulfilled"
              /\ \A c \in preloads[k].calls : calls[c].state # "pending"
              /\ \A category \in WithPath(k) : isCategoryLoaded(category.id)' ]_vars

\* C9, amended: preloadCategories resolves only after every load has
\* settled, never rejects, and when it resolves every given category with a
\* path is in the cache provided clearCache has not been called since
\* preloadCategories was.
C9_PreloadFillsCacheUnlessCleared ==
    [][ \A k \in 1..Len(preloads) :
          PreloadResolves(k) =>
              /\ preloads'[k].state = "fulfilled"
              /\ \A c \in preloads[k].calls : calls[c].state # "pending"
              /\ clears = preloads[k].epoch =>
                     \A category \in WithPath(k) : isCategoryLoaded(category.id)' ]_vars

\* A preload of two categories with paths and different ids has resolved,
\* without clearCache, after each of its loads issued a fetch.
C9_Witness ==
    \E k \in 1..Len(preloads) :
        /\ preloads[k].state = "fulfilled"
        /\ clears = 0
        /\ Cardinality({ category.id : category \in WithPath(k) }) = 2
        /\ \A c \in preloads[k].calls : calls[c].branch = "fetch"
        /\ \A category \in WithPath(k) : isCategoryLoaded(category.id)

\* C10: under fair scheduling every fetch that has been issued eventually
\* writes an entry for its id into the cache; none is cancelled or left
\* without a write.  Fetches are issued finitely often here, so this is: again
\* and again, every fetch issued so far has settled and has written.
C10_FetchRunsToCompletion ==
    []<>(\A p \in 1..Len(promises) :
            /\ promises[p].stage = "settled"
            /\ promises[p].wrote # NoList
            /\ promises[p].wrote.items =
                   IF promises[p].outcome = "ok" THEN parsedFile[promises[p].path]
                   ELSE <<>>)

\* A fetch issued before a clearCache call has written its entry after it.
C10_Witness ==
    \E c \in 1..Len(calls) :
        /\ calls[c].branch = "fetch"
        /\ calls[c].epoch < clears
        /\ promises[calls[c].promise].stage = "settled"
        /\ promises[calls[c].promise].wrote # NoList
        /\ MapHas(contentCache, calls[c].category.id)
        /\ contentCache[calls[c].category.id] = promises[calls[c].promise].wrote

\* ---------------------------------------------------------------- parser claims
ContentDone == parser.fn = "parseContent" /\ parser.pc = "done"

ConfigDone == parser.fn = "parseConfig" /\ parser.pc = "done"

Indices(s) == 1..Len(s)

\* C11: every item of the list parseContent returns, and every sub-item of
\* any item's photos, has a non-empty title; a record without a title when it
\* is finalized is not in the output.
C11_TitleRequired ==
    ContentDone =>
        \A i \in Indices(parser.result) :
            /\ parser.result[i].title # <<>>
            /\ \A j \in Indices(parser.result[i].photos) :
                   parser.result[i].photos[j].title # <<>>

\* A text with a `###` line that has no title text inside an item, and with
\* a sub-item that has one.
C11_Witness ==
    /\ ContentDone
    /\ \E k \in Indices(parser.md) : k > 1 /\ parser.md[k] = <<"#", "#", "#">>
    /\ \E i \in Indices(parser.result) : parser.result[i].photos # <<>>

\* The order token of a record, "999" when it has none.
Token(r) == Or(r.order, <<"9", "9", "9">>)

\* The ordering rule for a record a that stands before a record b.
InOrder(a, b) ==
    IF /\ parseFloat(Token(a)) # NaN /\ parseFloat(Token(b)) # NaN
       /\ parseFloat(Token(a)) # parseFloat(Token(b))
    THEN parseFloat(Token(a)) < parseFloat(Token(b))
    ELSE localeCompare(Token(a), Token(b)) <= 0

SortedByRule(s) ==
    \A i \in Indices(s) : \A j \in Indices(s) : i < j => InOrder(s[i], s[j])

\* C12: in the list parseContent returns, and in the photos of every gallery
\* item by the photos' own tokens alone, any two records a before b satisfy
\* the ordering rule: with a missing token replaced by "999", a's number is
\* the smaller one when both tokens are numbers that differ, and a's token is
\* lexicographically less than or equal to b's otherwise.
C12_SortedOutput ==
    ContentDone =>
        /\ SortedByRule(parser.result)
        /\ \A i \in Indices(parser.result) :
              parser.result[i].isSet => SortedByRule(parser.result[i].photos)

\* The records parseContent has to sort: the items, and the photos of each.
SortedLists(items) == {items} \cup { items[i].photos : i \in Indices(items) }

\* C13: the comparison parseContent sorts with is antisymmetric and
\* transitive over the order tokens of the records of a text, numeric,
\* non-numeric and missing ones mixed: no a, b, c have a before b, b before c
\* and c before a.
C13_OrderingTotal ==
    ContentDone =>
        \A list \in SortedLists(parser.result) :
            \A i \in Indices(list) : \A j \in Indices(list) : \A k \in Indices(list) :
                /\ ~(sortFn(list[i], list[j]) < 0 /\ sortFn(list[j], list[i]) < 0)
                /\ (sortFn(list[i], list[j]) <= 0 /\ sortFn(list[j], list[k]) <= 0)
                       => sortFn(list[i], list[k]) <= 0
                /\ ~(/\ sortFn(list[i], list[j]) < 0
                     /\ sortFn(list[j], list[k]) < 0
                     /\ sortFn(list[k], list[i]) < 0)

\* The records of a returned list: the items and the photos of each.
Records(items) ==
    { items[i] : i \in Indices(items) } \cup
    UNION { { items[i].photos[j] : j \in Indices(items[i].photos) } : i \in Indices(items) }

\* A 封面/Cover line in image syntax with a URL that is not blank.
IsExplicitCover(line) ==
    line.label \in {"fengmian", "Cover"} /\ ImageUrl(line.value) # <<>>

ExplicitCoversSeen(r) == { k \in Indices(r.seen) : IsExplicitCover(r.seen[k]) }

IsbnsSeen(r) == { k \in Indices(r.seen) : r.seen[k].label = "ISBN" /\ r.seen[k].value # <<>> }

Max(S) == CHOOSE x \in S : \A y \in S : x >= y

\* C14: a record that has had both a 封面/Cover line in image syntax with a
\* URL and an ISBN line, in either order, ends with the explicit image URL
\* as its cover, never with the Open-Library URL of the ISBN.
C14_CoverPrecedence ==
    ContentDone =>
        \A r \in Records(parser.result) :
            (ExplicitCoversSeen(r) # {} /\ IsbnsSeen(r) # {}) =>
                /\ r.cover = ImageUrl(r.seen[Max(ExplicitCoversSeen(r))].value)
                /\ \A k \in IsbnsSeen(r) : r.cover # OpenLibraryCover(r.seen[k].value)

\* An item whose ISBN line came first and wrote the derived cover, and whose
\* explicit cover line came after it.
C14_Witness ==
    /\ ContentDone
    /\ \E r \in Records(parser.result) :
          /\ ExplicitCoversSeen(r) # {} /\ IsbnsSeen(r) # {}
          /\ Min(IsbnsSeen(r)) < Min(ExplicitCoversSeen(r))
          /\ r.coverWrites = 2

\* C15: while parseContent processes the lines of one item or sub-item, the
\* cover of that record is written at most once, whatever 封面/Cover, ISBN
\* and SteamID/SteamAppID lines it has, in whatever order, repeated or not.
C15_CoverWrittenOnce ==
    parser.fn = "parseContent" =>
        /\ \A r \in Records(pushItem(parser.st).items) : r.coverWrites <= 1
        /\ \A r \in Records(parser.result) : r.coverWrites <= 1

\* An ISBN or SteamID/SteamAppID line with a value.
IsDerivation(line) ==
    line.label \in {"ISBN", "SteamID", "SteamAppID"} /\ line.value # <<>>

DerivationsSeen(r) == { k \in Indices(r.seen) : IsDerivation(r.seen[k]) }

\* The record the lines of the text go to at this point of the loop.
CurrentTarget == Target(parser.st.currentItem)

\* The next step of the loop hands an ISBN or SteamID/SteamAppID line to a
\* record that has a cover.
DerivationOnCovered ==
    /\ parser.fn = "parseContent" /\ parser.pc = "loop"
    /\ parser.pos <= Len(parser.md)
    /\ parser.st.open
    /\ IsDerivation(Lex(parser.md[parser.pos]))
    /\ CurrentTarget.cover # <<>>

\* C15 as amended: while parseContent processes the lines of one item or
\* sub-item, ISBN and SteamID/SteamAppID lines write the cover of the record
\* at most once and never when it has a cover; each 封面/Cover line in image
\* syntax with a URL writes it, and nothing else does.
C15_DerivedCoverWrittenOnce ==
    /\ [](parser.fn = "parseContent" =>
            \A r \in Records(pushItem(parser.st).items) :
                /\ r.coverWrites >= Cardinality(ExplicitCoversSeen(r))
                /\ r.coverWrites <= Cardinality(ExplicitCoversSeen(r)) + 1)
    /\ [][DerivationOnCovered =>
            /\ CurrentTarget'.cover = CurrentTarget.cover
            /\ CurrentTarget'.coverWrites = CurrentTarget.coverWrites]_vars

\* A record that had an ISBN line, a SteamID line and an explicit cover
\* line, and whose cover was written once by the first two.
C15_Witness ==
    /\ ContentDone
    /\ \E r \in Records(parser.result) :
          /\ Cardinality(DerivationsSeen(r)) >= 2
          /\ ExplicitCoversSeen(r) # {}
          /\ r.coverWrites = Cardinality(ExplicitCoversSeen(r)) + 1

\* The order a category counts with: its 展示序号 when that is an integer, 99
\* when it has none or one that is no number.
EffectiveOrder(c) == IF c.hasOrder /\ c.order # NaN THEN c.order ELSE 99

\* The place of a category of CategoryDoc in the text: its title is the
\* letter of that place.
Place(c) == CHOOSE i \in 1..26 : c.title = <<Upper[i]>>

\* C16: the categories parseConfig returns are in ascending order of their
\* order, for all integer orders, a missing or non-numeric one counting as
\* 99, and categories of equal order are in the order of the text.
C16_CategoriesSorted ==
    (ConfigDone /\ parser.md # ConfigFile) =>
        LET cs == parser.result.categories
        IN  \A i \in Indices(cs) : \A j \in Indices(cs) :
                i < j =>
                    \/ EffectiveOrder(cs[i]) < EffectiveOrder(cs[j])
                    \/ /\ EffectiveOrder(cs[i]) = EffectiveOrder(cs[j])
                       /\ Place(cs[i]) < Place(cs[j])

ScenarioLabels == {"miaoshu", "jishuzhan", "zhuangtai", "lianjie"}

\* The text is a `## ` heading line, a `### ` heading line, and then one
\* line of each of 描述, 技术栈, 状态 and 链接.
IsScenario(md) ==
    /\ Len(md) = 6
    /\ Lex(md[1]).label = "##"
    /\ Lex(md[2]).label = "###"
    /\ { Lex(md[k]).label : k \in 3..6 } = ScenarioLabels

\* The value of the scenario's line with this label.
ValueOf(md, label) == Lex(md[CHOOSE k \in 3..6 : Lex(md[k]).label = label]).value

\* The record has the values of the scenario's field lines.
HasScenarioFields(r, md) ==
    /\ r.desc = ValueOf(md, "miaoshu")
    /\ r.tech = ValueOf(md, "jishuzhan")
    /\ r.status = ValueOf(md, "zhuangtai")
    /\ r.linkText = parseLink(ValueOf(md, "lianjie")).text
    /\ r.linkUrl = parseLink(ValueOf(md, "lianjie")).url

HasNoScenarioFields(r) ==
    /\ r.desc = <<>> /\ r.tech = <<>> /\ r.status = <<>>
    /\ r.linkText = <<>> /\ r.linkUrl = <<>>

\* C17: for a `## ` heading line, then a `### ` heading line with title T,
\* then the field lines 描述, 技术栈, 状态 and 链接, parseContent returns one
\* item, its title T and its desc, tech, status, linkText and linkUrl the
\* values of those lines.
C17_ScenarioItem ==
    (ContentDone /\ IsScenario(parser.md)) =>
        /\ Len(parser.result) = 1
        /\ parser.result[1].title = Lex(parser.md[2]).value
        /\ HasScenarioFields(parser.result[1], parser.md)

\* C17 as amended: parseContent returns one item, its title the text of the
\* `## ` heading, marked as a gallery, with none of those fields; its photos
\* are one sub-item, its title T and its desc, tech, status, linkText and
\* linkUrl the values of those lines.
C17_ScenarioSubItem ==
    (ContentDone /\ IsScenario(parser.md)) =>
        /\ Len(parser.result) = 1
        /\ parser.result[1].title = Lex(parser.md[1]).value
        /\ parser.result[1].isSet
        /\ HasNoScenarioFields(parser.result[1])
        /\ Len(parser.result[1].photos) = 1
        /\ parser.result[1].photos[1].title = Lex(parser.md[2]).value
        /\ HasScenarioFields(parser.result[1].photos[1], parser.md)

\* The scenario's text has been parsed, its link giving GitHub's text and URL.
C17_Witness ==
    /\ ContentDone /\ IsScenario(parser.md)
    /\ parser.result[1].photos[1].linkText = <<"G">>
    /\ parser.result[1].photos[1].linkUrl = <<"http://", "x">>

SlugDone == parser.fn = "slugify" /\ parser.pc = "done"

\* A lower-case letter, a digit, a hyphen, an underscore or a period.
IsSlugChar(c) ==
    \/ IsLetterOrDigit(c) /\ toLowerCase(c) = c
    \/ c \in {"-", "_", "."}

\* C18: whatever its argument, the result of slugify has only lower-case
\* letters, digits, hyphens, underscores and periods, no white space and no
\* two hyphens side by side; the empty string and undefined give "".
C18_SlugPurity ==
    SlugDone =>
        /\ \A k \in Indices(parser.result) :
              /\ IsSlugChar(parser.result[k])
              /\ parser.result[k] \notin Whitespace
              /\ k > 1 => ~(parser.result[k - 1] = "-" /\ parser.result[k] = "-")
        /\ (~parser.md.defined \/ parser.md.text = <<>>) => parser.result = <<>>

\* An argument with an upper-case letter and with a blank next to a hyphen
\* inside, whose slug is not empty.
C18_Witness ==
    /\ SlugDone
    /\ parser.md.defined
    /\ \E k \in Indices(parser.md.text) : parser.md.text[k] = "A"
    /\ \E k \in Indices(parser.md.text) :
          /\ 1 < k /\ k + 1 < Len(parser.md.text)
          /\ parser.md.text[k] = " " /\ parser.md.text[k + 1] = "-"
    /\ parser.result # <<>>

AtLine == parser.fn = "parseContent" /\ parser.pc = "loop" /\ parser.pos <= Len(parser.md)

NextLine == Lex(parser.md[parser.pos])

CurrentItem == parser.st.currentItem

\* C20: a `### ` heading inside an open item marks the item as a gallery,
\* appends a new sub-item to the end of its photos and makes it the write
\* target; every field line up to the next heading changes that sub-item
\* alone, never a field of the parent item (数量 sets the parent's isSet,
\* which is set already) nor another sub-item; a `### ` heading with no open
\* item creates nothing.
C20_SubItemIsTarget ==
    [][/\ (AtLine /\ NextLine.label = "###" /\ parser.st.open) =>
            /\ CurrentItem'.isSet
            /\ CurrentItem'.photos = Append(CurrentItem.photos, NewSubItem(NextLine.value))
            /\ CurrentItem'.currentSubItem = Len(CurrentItem'.photos)
            /\ Target(CurrentItem') = NewSubItem(NextLine.value)
            /\ [CurrentItem' EXCEPT !.isSet = CurrentItem.isSet,
                                    !.photos = CurrentItem.photos,
                                    !.currentSubItem = CurrentItem.currentSubItem]
                   = CurrentItem
            /\ parser'.st.items = parser.st.items
       /\ (AtLine /\ NextLine.label = "###" /\ ~parser.st.open) =>
            parser'.st = parser.st
       /\ (/\ AtLine /\ NextLine.label \notin {"##", "###"}
           /\ parser.st.open /\ CurrentItem.currentSubItem # 0) =>
            /\ [CurrentItem' EXCEPT !.photos = CurrentItem.photos] = CurrentItem
            /\ CurrentItem.isSet
            /\ Len(CurrentItem'.photos) = Len(CurrentItem.photos)
            /\ \A j \in Indices(CurrentItem.photos) :
                  j # CurrentItem.currentSubItem =>
                      CurrentItem'.photos[j] = CurrentItem.photos[j]
            /\ parser'.st.items = parser.st.items
      ]_vars

\* An item that had a field line of its own, then a sub-item heading and a
\* field line written to the sub-item.
C20_Witness ==
    /\ ContentDone
    /\ \E i \in Indices(parser.result) :
          /\ parser.result[i].desc # <<>>
          /\ parser.result[i].photos # <<>>
          /\ parser.result[i].photos[Len(parser.result[i].photos)].desc # <<>>

SteamsSeen(r) ==
    { k \in Indices(r.seen) :
        r.seen[k].label \in {"SteamID", "SteamAppID"} /\ r.seen[k].value # <<>> }

\* The cover an ISBN or SteamID/SteamAppID line derives.
DerivedCover(line) ==
    IF line.label = "ISBN" THEN OpenLibraryCover(line.value) ELSE SteamCover(line.value)

\* A record with no 封面/Cover line in image syntax with a URL, and with both
\* an ISBN line and a SteamID/SteamAppID line.
DerivedOnly(r) ==
    ExplicitCoversSeen(r) = {} /\ IsbnsSeen(r) # {} /\ SteamsSeen(r) # {}

\* C21: a record with no valid 封面/Cover line but with both an ISBN line and
\* a SteamID/SteamAppID line ends with the Open-Library URL of the ISBN as its
\* cover whichever of the two lines comes first, and a cover set by a
\* higher-priority rule is never replaced by a lower-priority one.
C21_IsbnBeforeSteam ==
    /\ [](ContentDone =>
            \A r \in Records(parser.result) :
                DerivedOnly(r) =>
                    \E k \in IsbnsSeen(r) : r.cover = OpenLibraryCover(r.seen[k].value))
    /\ [][DerivationOnCovered => CurrentTarget'.cover = CurrentTarget.cover]_vars

\* C21 as amended: such a record ends with the cover derived from whichever
\* of the two lines comes first, the Open-Library URL when that is the ISBN
\* line and the Steam header URL when that is the SteamID/SteamAppID line; an
\* ISBN or SteamID/SteamAppID line never replaces a cover the record has.
C21_FirstDerivationWins ==
    /\ [](ContentDone =>
            \A r \in Records(parser.result) :
                DerivedOnly(r) =>
                    r.cover = DerivedCover(r.seen[Min(DerivationsSeen(r))]))
    /\ [][DerivationOnCovered => CurrentTarget'.cover = CurrentTarget.cover]_vars

\* A record whose SteamID line came before its ISBN line and that kept the
\* Steam header URL.
C21_Witness ==
    /\ ContentDone
    /\ \E r \in Records(parser.result) :
          /\ DerivedOnly(r)
          /\ Min(SteamsSeen(r)) < Min(IsbnsSeen(r))
          /\ r.cover = SteamCover(r.seen[Min(SteamsSeen(r))].value)

\* A 数量 value that parseInt reads as an integer greater than 1.
IsGalleryCount(value) == parseInt(value) # NaN /\ parseInt(value) > 1

\* The 数量 lines with such a value among the lines a record has had.
GalleryCountsSeen(r) ==
    { k \in Indices(r.seen) :
        r.seen[k].label = "shuliang" /\ IsGalleryCount(r.seen[k].value) }

\* The text being parsed has no `### ` heading line.
NoSubHeadings ==
    \A k \in Indices(parser.md) : Lex(parser.md[k]).label # "###"

\* C22: a 数量 line whose value parses as an integer greater than 1 sets isSet
\* on the current top-level item and changes nothing else of it; a 数量 line
\* with any other value leaves isSet as it was; so in a text with no `### `
\* heading an item is returned with isSet true exactly when it has had such a
\* line, and with an empty photos list.
C22_QuantityMarksGallery ==
    /\ [](ContentDone /\ NoSubHeadings =>
            \A i \in Indices(parser.result) :
                /\ parser.result[i].isSet = (GalleryCountsSeen(parser.result[i]) # {})
                /\ parser.result[i].photos = <<>>)
    /\ [][(AtLine /\ parser.st.open /\ NextLine.label = "shuliang") =>
            /\ CurrentItem'.isSet =
                  IF IsGalleryCount(NextLine.value) THEN TRUE ELSE CurrentItem.isSet
            /\ Len(CurrentItem'.photos) = Len(CurrentItem.photos)
            /\ CurrentItem'.currentSubItem = CurrentItem.currentSubItem
            /\ parser'.st.items = parser.st.items]_vars

\* An item returned as a gallery without photos because of its 数量 line,
\* next to an item whose 数量 lines did not count and that is no gallery.
C22_Witness ==
    /\ ContentDone /\ NoSubHeadings
    /\ \E i \in Indices(parser.result) :
          /\ parser.result[i].isSet
          /\ parser.result[i].photos = <<>>
          /\ GalleryCountsSeen(parser.result[i]) # {}
    /\ \E i \in Indices(parser.result) :
          /\ ~parser.result[i].isSet
          /\ \E k \in Indices(parser.result[i].seen) :
                parser.result[i].seen[k].label = "shuliang"

ConfigAtLine ==
    parser.fn = "parseConfig" /\ parser.pc = "loop" /\ parser.pos <= Len(parser.md)

SectionHeadings == {"##blog", "##author", "##categories"}

\* C23: parseConfig is a state machine over the sections blog, author and
\* categories: a section heading changes the section alone; any other line
\* leaves the section, and changes only the record the section selects
\* (blogInfo, authorInfo, or the category started last, which a `### ` heading
\* of the categories section appends); a line before any section heading, a
\* category field line before the first `### ` heading, a blank line and a
\* line that matches nothing change nothing.
C23_SectionFrame ==
    [][ConfigAtLine =>
          LET line == parser.md[parser.pos]
              st == parser.st
              after == parser'.st
              cats == st.config.categories
              catsAfter == after.config.categories
          IN  /\ line.label \in SectionHeadings =>
                    /\ after.config = st.config
                    /\ after.currentCategory = st.currentCategory
                    /\ after.currentSection =
                          (CASE line.label = "##blog" -> "blog"
                             [] line.label = "##author" -> "author"
                             [] line.label = "##categories" -> "categories")
              /\ line.label \notin SectionHeadings =>
                    after.currentSection = st.currentSection
              /\ (line.label \notin SectionHeadings /\ st.currentSection = "null") =>
                    after = st
              /\ line.label = "" => after = st
              /\ (line.label \notin SectionHeadings /\ st.currentSection = "blog") =>
                    /\ after.config.authorInfo = st.config.authorInfo
                    /\ catsAfter = cats
                    /\ after.currentCategory = st.currentCategory
              /\ (line.label \notin SectionHeadings /\ st.currentSection = "author") =>
                    /\ after.config.blogInfo = st.config.blogInfo
                    /\ catsAfter = cats
                    /\ after.currentCategory = st.currentCategory
              /\ (line.label \notin SectionHeadings /\ st.currentSection = "categories") =>
                    /\ after.config.blogInfo = st.config.blogInfo
                    /\ after.config.authorInfo = st.config.authorInfo
                    /\ IF line.label = "###"
                       THEN /\ Len(catsAfter) = Len(cats) + 1
                            /\ SubSeq(catsAfter, 1, Len(cats)) = cats
                            /\ after.currentCategory = Len(catsAfter)
                       ELSE IF st.currentCategory = 0 THEN after = st
                       ELSE /\ after.currentCategory = st.currentCategory
                            /\ st.currentCategory = Len(cats)
                            /\ Len(catsAfter) = Len(cats)
                            /\ \A k \in Indices(cats) :
                                  k # st.currentCategory => catsAfter[k] = cats[k]
       ]_vars

\* In the categories section, after a field line has been written to the
\* second category while the first one and the blog record have a field set.
C23_Witness ==
    /\ parser.fn = "parseConfig" /\ parser.pc = "loop"
    /\ parser.st.currentSection = "categories"
    /\ parser.st.config.blogInfo.title # <<>>
    /\ Len(parser.st.config.categories) = 2
    /\ parser.st.config.categories[1].hasOrder
    /\ parser.st.config.categories[2].hasOrder

\* Calls i and j load two categories with the same id and different paths one
\* after the other: i issued the fetch of its path, j was made after that
\* fetch had settled, both have resolved, and clearCache has not been called.
SequentialPair(i, j) ==
    /\ i < j
    /\ calls[i].category.id = calls[j].category.id
    /\ calls[i].category.path # "" /\ calls[j].category.path # ""
    /\ calls[i].category.path # calls[j].category.path
    /\ calls[i].branch = "fetch"
    /\ promises[calls[i].promise].stage = "settled"
    /\ promises[calls[i].promise].callsAtSettle < j
    /\ calls[i].state = "fulfilled" /\ calls[j].state = "fulfilled"
    /\ clears = 0

\* C24: when two categories with the same id and different paths are loaded
\* one after the other, the later load overwrites the earlier one in the
\* cache: after both have resolved, the cache entry of the id and the list
\* returned to the second caller are the content of the second path.
C24_LastWriteWins ==
    \A i \in 1..Len(calls) : \A j \in 1..Len(calls) :
        (SequentialPair(i, j) /\ promises[calls[i].promise].outcome = "ok") =>
            /\ MapHas(contentCache, calls[j].category.id)
            /\ contentCache[calls[j].category.id].items = parsedFile[calls[j].category.path]
            /\ calls[j].value.items = parsedFile[calls[j].category.path]

\* C24 as amended: the earlier load wins.  The later call finds the id in the
\* cache and issues no fetch of its own path; after both have resolved, the
\* cache entry of the id and the list returned to the second caller are the
\* array the first load stored, the content of the first path when its fetch
\* succeeded.
C24_FirstWriteWins ==
    \A i \in 1..Len(calls) : \A j \in 1..Len(calls) :
        SequentialPair(i, j) =>
            LET first == promises[calls[i].promise]
            IN  /\ calls[j].branch = "cached"
                /\ \A p \in 1..Len(promises) :
                      promises[p].id = calls[j].category.id => p = calls[i].promise
                /\ MapHas(contentCache, calls[j].category.id)
                /\ contentCache[calls[j].category.id] = first.wrote
                /\ calls[j].value = first.wrote
                /\ first.outcome = "ok" =>
                      first.wrote.items = parsedFile[calls[i].category.path]

\* The first category's fetch succeeded and the second category, of the same
\* id, was then loaded and served from the cache.
C24_Witness ==
    \E i \in 1..Len(calls) : \E j \in 1..Len(calls) :
        /\ SequentialPair(i, j)
        /\ promises[calls[i].promise].outcome = "ok"
        /\ calls[j].value.items = parsedFile[calls[i].category.path]
        /\ calls[j].value.items # parsedFile[calls[j].category.path]

\* A fetch of the id issued by a call made after the last clearCache has
\* completed.
FetchedSinceClear(id) ==
    \E c \in 1..Len(calls) :
        /\ calls[c].branch = "fetch"
        /\ calls[c].category.id = id
        /\ calls[c].epoch = clears
        /\ promises[calls[c].promise].stage = "settled"

\* Fetch p completes in this step.
Completes(p) == promises[p].stage # "settled" /\ promises'[p].stage = "settled"

\* C25: after clearCache, isCategoryLoaded(id) is false for every id until a
\* loadCategoryContent call made after the clear has completed its fetch; a
\* fetch that was in flight when clearCache was called writes nothing into
\* the cache afterwards.
C25_ClearedUntilNewLoad ==
    \A id \in Ids :
        (clears > 0 /\ ~FetchedSinceClear(id)) => ~isCategoryLoaded(id)

\* C25 as amended: when clearCache returns, isCategoryLoaded(id) is false for
\* every id, and it stays false until a fetch of that id completes, whether
\* the fetch was issued after the clear or was in flight when clearCache was
\* called: every fetch that completes puts its result into the cache.
C25_ClearedUntilFetchCompletes ==
    /\ [][clears' # clears => \A id \in Ids : ~isCategoryLoaded(id)']_vars
    /\ [][\A id \in Ids :
            (~isCategoryLoaded(id) /\ isCategoryLoaded(id)') =>
                \E p \in 1..Len(promises) : promises[p].id = id /\ Completes(p)]_vars
    /\ [][\A p \in 1..Len(promises) :
            Completes(p) =>
                /\ isCategoryLoaded(promises[p].id)'
                /\ contentCache'[promises[p].id] = promises'[p].wrote]_vars

\* After clearCache the cache holds what a fetch that was in flight during
\* the call has written, and no call made after the clear has completed a
\* fetch of that id.
C25_Witness ==
    \E c \in 1..Len(calls) :
        /\ calls[c].branch = "fetch"
        /\ calls[c].epoch < clears
        /\ ~FetchedSinceClear(calls[c].category.id)
        /\ isCategoryLoaded(calls[c].category.id)
        /\ contentCache[calls[c].category.id] = promises[calls[c].promise].wrote

\* No fetch is in flight and every loadCategoryContent call has resumed.
Quiescent ==
    /\ \A p \in 1..Len(promises) : promises[p].stage = "settled"
    /\ \A c \in 1..Len(calls) : calls[c].state # "pending"

\* C26: the pending-request map holds an entry for an id only while a request
\* for that id is outstanding: an entry is the promise of a call that issued
\* a fetch of the id and has not resumed; when such a call resumes after its
\* fetch has settled, the id has no entry; so whenever no fetch is in flight
\* and all callers have resumed, the map is empty.
C26_PendingOnlyWhileOutstanding ==
    /\ [](\A id \in Ids :
            MapHas(pendingRequests, id) =>
                \E c \in 1..Len(calls) :
                    /\ calls[c].branch = "fetch" /\ calls[c].category.id = id
                    /\ calls[c].state = "pending"
                    /\ calls[c].promise = pendingRequests[id])
    /\ [][\A c \in 1..Len(calls) :
            (calls[c].branch = "fetch" /\ calls[c].state = "pending"
                /\ calls'[c].state # "pending") =>
                /\ promises[calls[c].promise].stage = "settled"
                /\ ~MapHas(pendingRequests', calls[c].category.id)]_vars
    /\ [](Quiescent => pendingRequests = EmptyMap)

\* Two fetches, one that failed and one that succeeded, have settled, their
\* callers have resumed, and nothing is outstanding.
C26_Witness ==
    /\ Quiescent
    /\ pendingRequests = EmptyMap
    /\ \E c \in 1..Len(calls) :
          /\ calls[c].branch = "fetch"
          /\ promises[calls[c].promise].outcome = "ok"
    /\ \E c \in 1..Len(calls) :
          /\ calls[c].branch = "fetch"
          /\ promises[calls[c].promise].outcome \in Failures

\* How many times each element occurs in a sequence.
BagOfSeq(s) ==
    [x \in { s[i] : i \in Indices(s) } |-> Cardinality({ i \in Indices(s) : s[i] = x })]

\* The titles of the `### ` heading lines at the front of `lines`, up to the
\* next `## ` heading line.
RECURSIVE SubHeadingTitles(_)
SubHeadingTitles(lines) ==
    IF lines = <<>> \/ IsHeading(trim(Head(lines)), 2) THEN <<>>
    ELSE IF IsHeading(trim(Head(lines)), 3)
         THEN <<HeadingTitle(trim(Head(lines)), 3)>> \o SubHeadingTitles(Tail(lines))
         ELSE SubHeadingTitles(Tail(lines))

\* For each `## ` heading line of `lines`, in order: its title and the titles
\* of the `### ` heading lines that stand between it and the next one.
RECURSIVE HeadingShapes(_)
HeadingShapes(lines) ==
    IF lines = <<>> THEN <<>>
    ELSE IF IsHeading(trim(Head(lines)), 2)
         THEN <<[title |-> HeadingTitle(trim(Head(lines)), 2),
                 photos |-> SubHeadingTitles(Tail(lines))]>>
              \o HeadingShapes(Tail(lines))
         ELSE HeadingShapes(Tail(lines))

\* The same of a list of items: each title and the titles of its photos.
ItemShapes(items) ==
    [i \in Indices(items) |->
        [title |-> items[i].title,
         photos |-> [j \in Indices(items[i].photos) |-> items[i].photos[j].title]]]

\* An item without the order of its photos: the photos as a bag.
Unordered(item) ==
    [item EXCEPT !.photos = BagOfSeq(@), !.currentSubItem = 0]

UnorderedAll(items) == BagOfSeq([i \in Indices(items) |-> Unordered(items[i])])

\* C27: parseContent collects one item for each `## ` heading line of the
\* text, and in the photos of each item one sub-item, in order, for each
\* `### ` heading line between the item's heading and the next `## ` heading;
\* the sorting at the end only permutes the items and the photos of each
\* item: no record is added, dropped or duplicated.
C27_OneRecordPerHeading ==
    /\ [](parser.fn = "parseContent" /\ parser.pc = "loop" =>
            ItemShapes(pushItem(parser.st).items) =
                HeadingShapes(SubSeq(parser.md, 1, parser.pos - 1)))
    /\ [](ContentDone =>
            /\ Len(parser.result) = Len(HeadingShapes(parser.md))
            /\ BagOfSeq([i \in Indices(parser.result) |->
                            [title |-> parser.result[i].title,
                             photos |-> BagOfSeq(ItemShapes(parser.result)[i].photos)]])
                = BagOfSeq([i \in Indices(HeadingShapes(parser.md)) |->
                            [title |-> HeadingShapes(parser.md)[i].title,
                             photos |-> BagOfSeq(HeadingShapes(parser.md)[i].photos)]]))
    /\ [][(parser.fn = "parseContent" /\ parser.pc = "loop" /\ parser'.pc = "done") =>
            UnorderedAll(parser'.result) = UnorderedAll(pushItem(parser.st).items)]_vars

\* An item was returned with its photos in another order than that of their
\* headings.
C27_Witness ==
    /\ ContentDone
    /\ \E i \in Indices(parser.result) :
          /\ Len(parser.result[i].photos) >= 2
          /\ \A k \in Indices(HeadingShapes(parser.md)) :
                ItemShapes(parser.result)[i] # HeadingShapes(parser.md)[k]

\* The configuration has been loaded: loadSiteConfig has resolved.
ConfigLoaded == app.config # 0 /\ configCalls[app.config].state = "fulfilled"

\* The category fetches that have not completed.
FetchesInFlight == { p \in 1..Len(promises) : promises[p].stage # "settled" }

\* C28: during start-up no category fetch is issued before loadSiteConfig has
\* resolved, and none if it rejects; at most one category fetch is in flight
\* at any moment; a fetch is issued for the category that is being loaded,
\* when no other fetch is in flight, the categories before it in the order of
\* siteConfig.categories (the sorted order) have been dealt with, and the
\* first category has been loaded and rendered into its section.
C28_StartupOrder ==
    /\ [](promises # <<>> => ConfigLoaded)
    /\ [](app.pc = "failed" => promises = <<>>)
    /\ [](Cardinality(FetchesInFlight) <= 1)
    /\ [](/\ Len(app.loads) = Len(calls)
          /\ \A c \in 1..Len(calls) :
                /\ calls[c].category = CategoryMeta(app.categories[app.loads[c]])
                /\ \A d \in 1..Len(calls) : c < d => app.loads[c] < app.loads[d])
    /\ [][Len(promises') > Len(promises) =>
            /\ Len(promises') = Len(promises) + 1
            /\ promises'[Len(promises')].id = app'.categories[app'.index].id
            /\ promises'[Len(promises')].path = Head(app'.categories[app'.index].path)
            /\ FetchesInFlight = {}
            /\ \A c \in 1..Len(calls) : calls[c].state # "pending"
            /\ app'.index > 1 =>
                  /\ app.categories[1].id \in app.sections =>
                        /\ app.rendered # <<>> /\ app.rendered[1] = 1
                        /\ app.categories[1].id \in app.loaded
                  /\ \A c \in 1..Len(app.loads) :
                        app.categories[app.loads[c]].id \in app.loaded]_vars

\* Start-up has finished after three fetches, issued one after the other for
\* the categories in sorted order, the reverse of their order in the file.
C28_Witness ==
    /\ app.pc = "done"
    /\ Len(promises) = 3
    /\ app.rendered = <<1, 2, 3>>
    /\ \E i \in 1..Len(configFile) : configFile[i].label = "zhanshixuhao"

\* ---------------------------------------------------------------- player claims
\* The events emitted by a step.
NewEvents == SubSeq(player'.events, Len(player.events) + 1, Len(player'.events))

\* C29: after pause() has been called isPlaying stays false until the next
\* call of play, toggle, loadTrack, next or prev: a play promise of an
\* earlier call that resolves late neither sets isPlaying nor emits a play
\* event.
C29_PauseHolds ==
    [][player'.sincePause =>
          /\ ~player'.isPlaying
          /\ player.sincePause =>
                \A i \in 1..Len(NewEvents) : NewEvents[i].event # "audio:play"]_vars

\* C30: slugify is idempotent: the slug of a result of slugify is that
\* result, slugify(slugify(s)) = slugify(s) for every argument s.
C30_SlugifyIdempotent ==
    SlugDone => slugify(OrEmpty(String(parser.result))) = parser.result

\* slugify has returned a slug that its argument was not: the argument had
\* an upper-case letter, white space inside and a character that is stripped.
C30_Witness ==
    /\ SlugDone
    /\ parser.md.defined
    /\ parser.result # parser.md.text
    /\ parser.result # <<>>
    /\ \E i, j, k \in 1..Len(parser.md.text) :
          /\ parser.md.text[i] = "A"
          /\ parser.md.text[j] = " "
          /\ parser.md.text[k] = "!"
          /\ 1 < j /\ j < Len(parser.md.text)
====
